---- MODULE Spec2Model ----
(***************************************************************************)
(* Shot analytics of soccer-shot-tracker: the statistics, filtering and    *)
(* heat-map helpers that the test suites define and exercise.              *)
(*                                                                         *)
(* The helpers are pure functions of a shot log.  The state is the log     *)
(* handed to them (shots) and the last call made on it (call: the helper's *)
(* name, its arguments and the value it returned).  The shot tracker, the  *)
(* roster and player management and the shot generators follow, each with  *)
(* its own specification over the same variables.                          *)
(*                                                                         *)
(* Numbers.  Pitch coordinates and cell sizes are JavaScript numbers; a    *)
(* coordinate or cell size v is held as the integer 2 * v (half units), so *)
(* that 52.5 is representable.  Shot weights and densities are held in     *)
(* fifths (1.0 is 5, 0.4 is 2).  A quotient the code returns (a            *)
(* percentage, an alpha) is the record [num, den] of an exact fraction;    *)
(* den = 0 stands for the non-finite result of a division by zero.         *)
(* Rounding of IEEE doubles is not modelled.                               *)
(***************************************************************************)
EXTENDS Integers, Sequences, FiniteSets, TLC

VARIABLES
    shots,   \* the shot log: the array passed to a helper, gameState.shots
    call,    \* the last call: its name, arguments and returned value or error
    earlier, \* an earlier call whose result the caller has kept
    game,    \* gameState's scores and the undo button of the page
    state,   \* the roster and player state object of the application
    store,   \* the backing store: the tables and pending error of the mock
    localStorage  \* the item 'currentRosterId' of the browser's storage

\* The state outside the shot log and the last call.
appVars == <<earlier, game, state, store, localStorage>>

vars == <<shots, call, appVars>>

\* ------------------------------------------------------------------ bounds

\* Longest shot log handed to the statistics and filter helpers.
MaxShots == 3

\* Longest shot log handed to the heat-map helpers.
MaxGridShots == 2

\* Largest density and maximum density handed to getDensityColor, in fifths.
DensityMax == 10

\* Longest shot log handed to the heat-map visibility conditions.
MaxEligibilityShots == 11

\* Longest shot log of a tracked game.
MaxGameShots == 3

\* Longest shot log handed to the goal attribution helpers.
MaxScorerShots == 3

\* Most records the store is asked to insert.
MaxInserts == 1

\* Longest shot log on which the analytics functions are called repeatedly.
MaxAnalyticsShots == 2

\* ------------------------------------------------------------------ shots

\* A coordinate or cell size v in half units.
HalfUnits(v) == 2 * v

\* createShot's defaults for the position, x = 90 and y = 34.
DefaultPosition == [x |-> HalfUnits(90), y |-> HalfUnits(34)]

\* The shot record createShot builds.  teamName, gameTime and clockSeconds
\* are read by none of the helpers below and are left out.
createShot(team, type, half, x, y) ==
    [team |-> team, type |-> type, half |-> half, position |-> [x |-> x, y |-> y]]

Teams == {"home", "away"}

Types == {"GOAL!", "Shot On Target", "Shot Off Target"}

Halves == {"1st Half", "2nd Half"}

\* Well-formed shots at the default position, plus the two malformed shapes a
\* free-string record allows: a missing team (invalidShots, team: null, held
\* as the string "null") and a type outside the three outcomes.
StatsShots ==
    {createShot(t, ty, h, DefaultPosition.x, DefaultPosition.y) :
        t \in Teams, ty \in Types, h \in Halves}
    \cup {createShot("null", "GOAL!", "1st Half", DefaultPosition.x, DefaultPosition.y),
          createShot("home", "Penalty", "2nd Half", DefaultPosition.x, DefaultPosition.y)}

\* All sequences over S of length at most n.
SeqsUpTo(S, n) == UNION {[1..k -> S] : k \in 0..n}

\* ------------------------------------------------------------- statistics

calculateTeamStats_noGoalsInOnTarget(S, team) ==
    LET teamShots == SelectSeq(S, LAMBDA s : s.team = team)
        goals == Len(SelectSeq(teamShots, LAMBDA s : s.type = "GOAL!"))
        onTarget == Len(SelectSeq(teamShots, LAMBDA s : s.type = "Shot On Target"))
        offTarget == Len(SelectSeq(teamShots, LAMBDA s : s.type = "Shot Off Target"))
    IN  [goals |-> goals, onTarget |-> onTarget,
         offTarget |-> offTarget, total |-> Len(teamShots)]

calculateTeamStats_totalOfAll(S, team) ==
    LET teamShots == SelectSeq(S, LAMBDA s : s.team = team)
        goals == Len(SelectSeq(teamShots, LAMBDA s : s.type = "GOAL!"))
        onTarget == Len(SelectSeq(teamShots, LAMBDA s : s.type = "Shot On Target"))
        offTarget == Len(SelectSeq(teamShots, LAMBDA s : s.type = "Shot Off Target"))
    IN  [goals |-> goals, onTarget |-> goals + onTarget,
         offTarget |-> offTarget, total |-> Len(S)]

calculateTeamStats(S, team) ==
    LET teamShots == SelectSeq(S, LAMBDA s : s.team = team)
        goals == Len(SelectSeq(teamShots, LAMBDA s : s.type = "GOAL!"))
        onTarget == Len(SelectSeq(teamShots, LAMBDA s : s.type = "Shot On Target"))
        offTarget == Len(SelectSeq(teamShots, LAMBDA s : s.type = "Shot Off Target"))
    IN  [goals |-> goals, onTarget |-> goals + onTarget,
         offTarget |-> offTarget, total |-> Len(teamShots)]

calculateHalfStats(S, team, half) ==
    LET filteredShots == SelectSeq(S, LAMBDA s : s.team = team /\ s.half = half)
        goals == Len(SelectSeq(filteredShots, LAMBDA s : s.type = "GOAL!"))
        onTarget == Len(SelectSeq(filteredShots, LAMBDA s : s.type = "Shot On Target"))
        offTarget == Len(SelectSeq(filteredShots, LAMBDA s : s.type = "Shot Off Target"))
    IN  [goals |-> goals, onTarget |-> onTarget, offTarget |-> offTarget]

calculateTotalStats(S) ==
    [home |-> calculateTeamStats(S, "home"),
     away |-> calculateTeamStats(S, "away"),
     total |-> Len(S)]

\* (count / shots.length) * 100 as the exact fraction count * 100 / length.
Percent(count, length) == [num |-> count * 100, den |-> length]

\* The literal 0 the two rate helpers return for an empty log.
Zero == [num |-> 0, den |-> 1]

calculateAccuracy_noEmptyGuard(S) ==
    Percent(Len(SelectSeq(S, LAMBDA s : s.type = "GOAL!" \/ s.type = "Shot On Target")),
            Len(S))

calculateAccuracy(S) ==
    IF Len(S) = 0 THEN Zero
    ELSE LET onTarget ==
                 Len(SelectSeq(S, LAMBDA s : s.type = "GOAL!" \/ s.type = "Shot On Target"))
         IN  Percent(onTarget, Len(S))

calculateConversionRate(S) ==
    IF Len(S) = 0 THEN Zero
    ELSE LET goals == Len(SelectSeq(S, LAMBDA s : s.type = "GOAL!"))
         IN  Percent(goals, Len(S))

\* ------------------------------------------------------------------ filter

filterByTeam_inverted(S, team) ==
    IF team = "all" THEN S ELSE SelectSeq(S, LAMBDA s : s.team # team)

filterByTeam(S, team) ==
    IF team = "all" THEN S ELSE SelectSeq(S, LAMBDA s : s.team = team)

filterByType(S, type) ==
    IF type = "all" THEN S ELSE SelectSeq(S, LAMBDA s : s.type = type)

filterByHalf(S, half) ==
    IF half = "all" THEN S ELSE SelectSeq(S, LAMBDA s : s.half = half)

\* A criteria object is a function from the keys it carries to their values;
\* the empty one stands for {} and for the omitted argument alike (the
\* parameter's default is {}).  A key it lacks takes the default 'all'.
Criterion(criteria, key) ==
    IF key \in DOMAIN criteria THEN criteria[key] ELSE "all"

filterShots(S, criteria) ==
    LET team == Criterion(criteria, "team")
        type == Criterion(criteria, "type")
        half == Criterion(criteria, "half")
    IN  filterByHalf(filterByType(filterByTeam(S, team), type), half)

\* [...new Set(values)]: the values in order of first occurrence, each once.
RECURSIVE SetSpread(_)
SetSpread(values) ==
    IF values = <<>> THEN <<>>
    ELSE LET front == SetSpread(SubSeq(values, 1, Len(values) - 1))
             last == values[Len(values)]
         IN  IF \E i \in DOMAIN front : front[i] = last
             THEN front
             ELSE Append(front, last)

getFilterOptions_noSet(S) ==
    [teams |-> [i \in DOMAIN S |-> S[i].team],
     types |-> [i \in DOMAIN S |-> S[i].type],
     halves |-> [i \in DOMAIN S |-> S[i].half]]

getFilterOptions(S) ==
    [teams |-> SetSpread([i \in DOMAIN S |-> S[i].team]),
     types |-> SetSpread([i \in DOMAIN S |-> S[i].type]),
     halves |-> SetSpread([i \in DOMAIN S |-> S[i].half])]

\* ---------------------------------------------------------------- heat map

FIELD_WIDTH == 105

FIELD_HEIGHT == 68

GRID_SIZE == 5

\* Math.floor(a / b) and Math.ceil(a / b) for b > 0.
Floor(a, b) == a \div b

Ceil_floor(a, b) == a \div b

Ceil(a, b) == -((-a) \div b)

\* shot.position.x > 52.5, on half units.
InAttackingHalf(shot) == shot.position.x > 105

getShotWeight_atOrBeyondHalfway(shot) ==
    IF shot.type = "GOAL!" \/ shot.type = "Shot On Target" THEN 5
    ELSE IF shot.type = "Shot Off Target" /\ shot.position.x >= 105 THEN 2
    ELSE 0

getShotWeight(shot) ==
    IF shot.type = "GOAL!" \/ shot.type = "Shot On Target" THEN 5
    ELSE IF shot.type = "Shot Off Target" /\ InAttackingHalf(shot) THEN 2
    ELSE 0

\* One pass of the forEach body: the shot's weight is added to its cell when
\* the cell lies in the grid, and the shot is skipped otherwise.
AddToGrid(grid, shot, gridSize, rows, cols) ==
    LET col == Floor(shot.position.x, gridSize)
        row == Floor(shot.position.y, gridSize)
        weight == getShotWeight(shot)
    IN  IF col >= 0 /\ col < cols /\ row >= 0 /\ row < rows
        THEN [grid EXCEPT ![row][col] = @ + weight]
        ELSE grid

RECURSIVE ForEachShot(_, _, _, _, _)
ForEachShot(grid, S, gridSize, rows, cols) ==
    IF S = <<>> THEN grid
    ELSE ForEachShot(AddToGrid(grid, Head(S), gridSize, rows, cols),
                     Tail(S), gridSize, rows, cols)

\* The grid is the array of rows, indexed from 0 like the arrays of the code.
calculateDensityGrid(S, gridSize) ==
    LET cols == Ceil(HalfUnits(FIELD_WIDTH), gridSize)
        rows == Ceil(HalfUnits(FIELD_HEIGHT), gridSize)
        grid == [row \in 0..(rows - 1) |-> [col \in 0..(cols - 1) |-> 0]]
    IN  ForEachShot(grid, S, gridSize, rows, cols)

\* Math.max(...grid.flat()): the largest value of the cells.
getMaxDensity(grid) ==
    LET flat == {grid[row][col] : row \in DOMAIN grid, col \in DOMAIN grid[0]}
    IN  CHOOSE m \in flat : \A v \in flat : v <= m

RECURSIVE GCD(_, _)
GCD(a, b) == IF b = 0 THEN a ELSE GCD(b, a % b)

\* The fraction num / den (den > 0) in lowest terms.
Frac(num, den) ==
    LET g == GCD(num, den) IN [num |-> num \div g, den |-> den \div g]

\* `rgba(r, g, b, ${base + normalized * slope})` with base and slope in
\* tenths and normalized = density / maxDensity.
Rgba(rgb, base, slope, density, maxDensity) ==
    [css |-> "rgba", rgb |-> rgb,
     alpha |-> Frac(base * maxDensity + slope * density, 10 * maxDensity)]

Transparent == [css |-> "transparent"]

getDensityColor_maxOnly(density, maxDensity) ==
    IF maxDensity = 0 THEN Transparent
    ELSE IF 5 * density < maxDensity
         THEN Rgba(<<0, 0, 255>>, 1, 2, density, maxDensity)
    ELSE IF 5 * density < 2 * maxDensity
         THEN Rgba(<<0, 255, 255>>, 2, 3, density, maxDensity)
    ELSE IF 5 * density < 3 * maxDensity
         THEN Rgba(<<0, 255, 0>>, 3, 3, density, maxDensity)
    ELSE IF 5 * density < 4 * maxDensity
         THEN Rgba(<<255, 255, 0>>, 5, 2, density, maxDensity)
    ELSE Rgba(<<255, 0, 0>>, 6, 3, density, maxDensity)

getDensityColor_exclusiveLower(density, maxDensity) ==
    IF maxDensity = 0 \/ density = 0 THEN Transparent
    ELSE IF 5 * density <= maxDensity
         THEN Rgba(<<0, 0, 255>>, 1, 2, density, maxDensity)
    ELSE IF 5 * density <= 2 * maxDensity
         THEN Rgba(<<0, 255, 255>>, 2, 3, density, maxDensity)
    ELSE IF 5 * density <= 3 * maxDensity
         THEN Rgba(<<0, 255, 0>>, 3, 3, density, maxDensity)
    ELSE IF 5 * density <= 4 * maxDensity
         THEN Rgba(<<255, 255, 0>>, 5, 2, density, maxDensity)
    ELSE Rgba(<<255, 0, 0>>, 6, 3, density, maxDensity)

\* normalized < k / 5 is 5 * density < k * maxDensity for maxDensity > 0.
getDensityColor(density, maxDensity) ==
    IF maxDensity = 0 \/ density = 0 THEN Transparent
    ELSE IF 5 * density < maxDensity
         THEN Rgba(<<0, 0, 255>>, 1, 2, density, maxDensity)
    ELSE IF 5 * density < 2 * maxDensity
         THEN Rgba(<<0, 255, 255>>, 2, 3, density, maxDensity)
    ELSE IF 5 * density < 3 * maxDensity
         THEN Rgba(<<0, 255, 0>>, 3, 3, density, maxDensity)
    ELSE IF 5 * density < 4 * maxDensity
         THEN Rgba(<<255, 255, 0>>, 5, 2, density, maxDensity)
    ELSE Rgba(<<255, 0, 0>>, 6, 3, density, maxDensity)

\* The least size of a log for which a heat map is shown.
MIN_SHOTS_FOR_HEAT_MAP == 10

canShowHeatMap_moreThan(S) == Len(S) > MIN_SHOTS_FOR_HEAT_MAP

canShowHeatMap(S) == Len(S) >= MIN_SHOTS_FOR_HEAT_MAP

canShowTeamHeatMap(S, team) ==
    LET teamShots == SelectSeq(S, LAMBDA s : s.team = team)
    IN  Len(teamShots) >= MIN_SHOTS_FOR_HEAT_MAP

\* The shots a heat map draws: goals and shots on target, and shots off
\* target taken beyond the halfway line; of one team unless the filter is
\* 'all'.
getHeatMapShots_everyOffTarget(S, teamFilter) ==
    LET filtered == IF teamFilter = "all" THEN S
                    ELSE SelectSeq(S, LAMBDA s : s.team = teamFilter)
        Included(shot) ==
            shot.type \in {"GOAL!", "Shot On Target", "Shot Off Target"}
    IN  SelectSeq(filtered, Included)

getHeatMapShots(S, teamFilter) ==
    LET filtered == IF teamFilter = "all" THEN S
                    ELSE SelectSeq(S, LAMBDA s : s.team = teamFilter)
        Included(shot) ==
            IF shot.type = "GOAL!" \/ shot.type = "Shot On Target" THEN TRUE
            ELSE IF shot.type = "Shot Off Target"
                 THEN InAttackingHalf(shot)
            ELSE FALSE
    IN  SelectSeq(filtered, Included)

\* Positions on the pitch: the corners and edges, the halfway line (52.5) and
\* the first half unit beyond it; and the two positions off the pitch of
\* invalidShots, (-10, 34) and (90, 100).
HeatMapPositions ==
    {[x |-> x, y |-> y] :
        x \in {0, 105, 106, HalfUnits(FIELD_WIDTH)},
        y \in {HalfUnits(34), HalfUnits(FIELD_HEIGHT)}}
    \cup {[x |-> HalfUnits(-10), y |-> HalfUnits(34)],
          [x |-> HalfUnits(90), y |-> HalfUnits(100)]}

HeatMapShots ==
    {createShot("home", type, "1st Half", p.x, p.y) :
        type \in Types \cup {"Penalty"}, p \in HeatMapPositions}

\* Cell sizes tried: the default 5, and 4, 7.5 and 10, in half units.
GridSizes == {HalfUnits(GRID_SIZE), HalfUnits(4), 15, HalfUnits(10)}

\* ------------------------------------------------------------ shot tracker

\* createGameState(), without the log (the variable shots) and the fields no
\* function below reads, and with the undo button of the page, which
\* createShotTrackerDOM renders disabled.
createGameState == [homeScore |-> 0, awayScore |-> 0, undoDisabled |-> TRUE]

\* The value of an absent result.
Undefined == [type |-> "undefined"]

\* updateUI: the undo button is disabled when the log is empty.
updateUI(log, g) == [g EXCEPT !.undoDisabled = (Len(log) = 0)]

addShot_everyGoalHome(log, g, shot) ==
    LET pushed == Append(log, shot)
        scored ==
            IF shot.type = "GOAL!"
            THEN [g EXCEPT !.homeScore = @ + 1]
            ELSE g
    IN  [shots |-> pushed, game |-> updateUI(pushed, scored)]

\* addShot on the pair of the log and the rest of the game state.
addShot(log, g, shot) ==
    LET pushed == Append(log, shot)
        scored ==
            IF shot.type = "GOAL!"
            THEN IF shot.team = "home"
                 THEN [g EXCEPT !.homeScore = @ + 1]
                 ELSE [g EXCEPT !.awayScore = @ + 1]
            ELSE g
    IN  [shots |-> pushed, game |-> updateUI(pushed, scored)]

undoLastShot_keepsScore(log, g) ==
    LET shot == IF log = <<>> THEN Undefined ELSE log[Len(log)]
        popped == IF log = <<>> THEN log ELSE SubSeq(log, 1, Len(log) - 1)
    IN  [shots |-> popped, game |-> updateUI(popped, g), ret |-> shot]

undoLastShot_noEmptyCheck(log, g) ==
    LET shot == IF log = <<>> THEN Undefined ELSE log[Len(log)]
        popped == IF log = <<>> THEN log ELSE SubSeq(log, 1, Len(log) - 1)
        scored ==
            IF shot = Undefined THEN [g EXCEPT !.awayScore = @ - 1]
            ELSE IF shot.type = "GOAL!"
            THEN IF shot.team = "home"
                 THEN [g EXCEPT !.homeScore = @ - 1]
                 ELSE [g EXCEPT !.awayScore = @ - 1]
            ELSE g
    IN  [shots |-> popped, game |-> updateUI(popped, scored), ret |-> shot]

\* undoLastShot: pop() gives undefined on an empty log.
undoLastShot(log, g) ==
    LET shot == IF log = <<>> THEN Undefined ELSE log[Len(log)]
        popped == IF log = <<>> THEN log ELSE SubSeq(log, 1, Len(log) - 1)
        scored ==
            IF shot # Undefined /\ shot.type = "GOAL!"
            THEN IF shot.team = "home"
                 THEN [g EXCEPT !.homeScore = @ - 1]
                 ELSE [g EXCEPT !.awayScore = @ - 1]
            ELSE g
    IN  [shots |-> popped, game |-> updateUI(popped, scored), ret |-> shot]

\* ------------------------------------------------------ rosters and players

\* Values of JavaScript that are not all of one type: a player number is a
\* number or null, and what a form hands over may be a string, NaN or
\* undefined.
Num(v) == [t |-> "number", v |-> v]
Null == [t |-> "null"]
NaN == [t |-> "NaN"]
Str(s) == [t |-> "string", s |-> s]
NoValue == [t |-> "undefined"]

\* A row of the players table, as createPlayer lays it out (user_id and
\* created_at are read by no function below).
createPlayer(id, roster_id, name, number) ==
    [id |-> id, roster_id |-> roster_id, name |-> name, number |-> number]

\* Array.prototype.find: the first element that satisfies P, or undefined.
Find(seq, P(_)) ==
    LET found == {i \in DOMAIN seq : P(seq[i])}
    IN  IF found = {} THEN NoValue
        ELSE seq[CHOOSE i \in found : \A j \in found : i <= j]

\* createShotWithPlayer: the shot with the id of its player, null if none.
createShotWithPlayer(shotData, playerId) ==
    [k \in DOMAIN shotData \cup {"playerId"} |->
        IF k = "playerId" THEN playerId ELSE shotData[k]]

getPlayerGoals(S, playerId) ==
    Len(SelectSeq(S, LAMBDA shot : shot.type = "GOAL!" /\ shot.playerId = playerId))

\* The keys of scorerMap in insertion order: the player ids of the attributed
\* goals, each at its first goal.
RECURSIVE ScorerKeys(_)
ScorerKeys(S) ==
    IF S = <<>> THEN <<>>
    ELSE LET front == SubSeq(S, 1, Len(S) - 1)
             shot == S[Len(S)]
             keys == ScorerKeys(front)
         IN  IF shot.type = "GOAL!" /\ shot.playerId # "null"
                /\ \A i \in DOMAIN keys : keys[i] # shot.playerId
             THEN Append(keys, shot.playerId)
             ELSE keys

\* Array.prototype.sort((a, b) => b.goals - a.goals): stable, most goals
\* first.
SortByGoals(entries) ==
    LET n == Len(entries)
        Place(i) ==
            1 + Cardinality({j \in 1..n : entries[j].goals > entries[i].goals})
              + Cardinality({j \in 1..(i - 1) : entries[j].goals = entries[i].goals})
    IN  [p \in 1..n |-> entries[CHOOSE i \in 1..n : Place(i) = p]]

\* The entry getGoalScorers builds for a key of scorerMap.
ScorerEntry(S, players, playerId) ==
    LET player == Find(players, LAMBDA p : p.id = playerId)
    IN  [playerId |-> playerId,
         playerName |-> IF player # NoValue THEN player.name ELSE "Unknown",
         playerNumber |-> IF player # NoValue THEN player.number ELSE Null,
         goals |-> getPlayerGoals(S, playerId)]

getGoalScorers_unsorted(S, players) ==
    LET keys == ScorerKeys(S)
    IN  [i \in DOMAIN keys |-> ScorerEntry(S, players, keys[i])]

getGoalScorers(S, players) ==
    LET keys == ScorerKeys(S)
    IN  SortByGoals([i \in DOMAIN keys |-> ScorerEntry(S, players, keys[i])])

\* createRosterState(), the fields the functions below read or write.  An id
\* that is null is the string "null"; a roster that is null is Null.
createRosterState ==
    [rosters |-> <<>>, players |-> <<>>,
     currentRosterId |-> "null", currentRoster |-> Null]

\* The mock store with its tables emptied (setMockRosters([]),
\* setMockPlayers([])): no pending error, no record inserted yet.
EmptyStore == [rosters |-> <<>>, players |-> <<>>, error |-> "null", inserted |-> 0]

\* A row of the rosters table, as createRoster lays it out (user_id, color
\* and the dates are read by no function below).
createRoster(id, name) == [id |-> id, name |-> name]

\* The ids the store gives the records it inserts, in order.
NewIds == <<"new-1", "new-2", "new-3", "new-4">>

\* What a call gives its caller: a value, or an error thrown.
Returned(value) == [threw |-> FALSE, value |-> value]
Thrown(error) == [threw |-> TRUE, error |-> error]

\* String.prototype.trim on the names handed over.
Trim(name) ==
    IF name = "  " THEN ""
    ELSE IF name = " Kim Lee " THEN "Kim Lee"
    ELSE IF name = " U10 Comets " THEN "U10 Comets"
    ELSE name

\* { ...item, ...updates }
Merge(item, updates) ==
    [k \in DOMAIN item \cup DOMAIN updates |->
        IF k \in DOMAIN updates THEN updates[k] ELSE item[k]]

\* The store's insert(data).select().single(): the pending error, or the
\* record with a fresh id, appended to the table.
StoreInsert(sto, table, data) ==
    IF sto.error # "null"
    THEN [store |-> sto, data |-> Null, error |-> [message |-> sto.error]]
    ELSE LET recordWithId == Merge(data, [id |-> NewIds[sto.inserted + 1]])
         IN  [store |-> [sto EXCEPT ![table] = Append(@, recordWithId),
                                    !.inserted = @ + 1],
              data |-> recordWithId, error |-> Null]

\* The store's update(data).eq('id', value): every row with that id merged
\* with data; no error when no row has it.
StoreUpdate(sto, table, data, value) ==
    IF sto.error # "null"
    THEN [store |-> sto, error |-> [message |-> sto.error]]
    ELSE [store |-> [sto EXCEPT ![table] =
                        [i \in DOMAIN @ |->
                            IF @[i].id = value THEN Merge(@[i], data) ELSE @[i]]],
          error |-> Null]

\* The store's delete().eq('id', value); deleting a roster deletes its
\* players as well.
StoreDelete(sto, table, value) ==
    IF sto.error # "null"
    THEN [store |-> sto, error |-> [message |-> sto.error]]
    ELSE LET filtered == [sto EXCEPT ![table] =
                             SelectSeq(@, LAMBDA item : item.id # value)]
         IN  [store |-> IF table = "rosters"
                        THEN [filtered EXCEPT !.players =
                                 SelectSeq(@, LAMBDA p : p.roster_id # value)]
                        ELSE filtered,
              error |-> Null]

\* The names of the rosters in ascending order of their strings.
NamesAscending ==
    <<"New Name", "U10 Comets", "U12 Eagles", "U14 Thunder", "U16 Lightning">>

\* results.sort(...) of the store on the column 'name', ascending: stable.
OrderByName(rows) ==
    LET n == Len(rows)
        Rank(row) == CHOOSE k \in DOMAIN NamesAscending : NamesAscending[k] = row.name
        Place(i) ==
            1 + Cardinality({j \in 1..n : Rank(rows[j]) < Rank(rows[i])})
              + Cardinality({j \in 1..(i - 1) : Rank(rows[j]) = Rank(rows[i])})
    IN  [p \in 1..n |-> rows[CHOOSE i \in 1..n : Place(i) = p]]

\* results.sort(...) of the store on the column 'number', ascending, rows
\* without a number last: stable.
OrderByNumber(rows) ==
    LET n == Len(rows)
        Before(a, b) == /\ a.number # Null
                        /\ b.number = Null \/ a.number.v < b.number.v
        Same(a, b) == ~Before(a, b) /\ ~Before(b, a)
        Place(i) ==
            1 + Cardinality({j \in 1..n : Before(rows[j], rows[i])})
              + Cardinality({j \in 1..(i - 1) : Same(rows[j], rows[i])})
    IN  [p \in 1..n |-> rows[CHOOSE i \in 1..n : Place(i) = p]]

\* The store's select('*').eq('roster_id', value).order('number'): the
\* pending error, or the players of that roster in order.
StoreSelectPlayers(sto, value) ==
    IF sto.error # "null"
    THEN [data |-> Null, error |-> [message |-> sto.error]]
    ELSE [data |-> OrderByNumber(SelectSeq(sto.players,
                                           LAMBDA item : item.roster_id = value)),
          error |-> Null]

\* The store's select('*').eq('user_id', userId).order('name'): every row of
\* the table belongs to the one user of the tests.
StoreSelectRosters(sto) ==
    IF sto.error # "null"
    THEN [data |-> Null, error |-> [message |-> sto.error]]
    ELSE [data |-> OrderByName(sto.rosters), error |-> Null]

\* The column constraint of players.number:
\* CHECK (number IS NULL OR (number >= 1 AND number <= 99)), on an INTEGER.
number_check(number) ==
    \/ number = Null
    \/ number.t = "number" /\ number.v >= 1 /\ number.v <= 99

\* UNIQUE (user_id, number) of the players table: no other row of the same
\* user holds the number; rows without a number do not conflict. Every row of
\* the fixtures and every row the tests insert belongs to the one test user.
unique_player_number_per_user(rows, row) ==
    \/ row.number = Null
    \/ \A i \in DOMAIN rows : rows[i].number # row.number

\* The players table takes the row.
PlayersTableAccepts(rows, row) ==
    /\ row.name # ""
    /\ number_check(row.number)
    /\ unique_player_number_per_user(rows, row)

\* The checks addPlayer and updatePlayer make of a number that is neither null
\* nor undefined, before they look for a duplicate: the error, or Null.
NumberError(number) ==
    IF number.t # "number"
    THEN [message |-> "Invalid player number"]
    ELSE IF number.v < 1 \/ number.v > 99
    THEN [message |-> "Player number must be between 1 and 99"]
    ELSE Null

\* `Number ${number} is already taken by ${duplicate.name}`
NumberTaken(number, duplicate) ==
    [message |-> "Number ${number} is already taken by ${duplicate.name}",
     number |-> number, name |-> duplicate.name]

\* The values `number || null` turns into null.
Falsy(value) == value \in {NoValue, Null, NaN, Num(0)}

\* The rest of addPlayer, once the name and the number have passed.
InsertPlayer(st, sto, rosterId, name, number) ==
    LET playerData == [roster_id |-> rosterId, name |-> Trim(name),
                       number |-> IF Falsy(number) THEN Null ELSE number]
        r == StoreInsert(sto, "players", playerData)
    IN  IF r.error # Null
        THEN [state |-> st, store |-> r.store, ret |-> Thrown(r.error)]
        ELSE [state |-> [st EXCEPT !.players = Append(@, r.data)],
              store |-> r.store, ret |-> Returned(r.data)]

addPlayer_noDuplicateCheck(st, sto, rosterId, name, number) ==
    IF name = "" \/ Trim(name) = ""
    THEN [state |-> st, store |-> sto,
          ret |-> Thrown([message |-> "Player name is required"])]
    ELSE IF number # Null /\ number # NoValue /\ NumberError(number) # Null
    THEN [state |-> st, store |-> sto, ret |-> Thrown(NumberError(number))]
    ELSE InsertPlayer(st, sto, rosterId, name, number)

addPlayer(st, sto, rosterId, name, number) ==
    LET duplicate ==
            Find(st.players,
                 LAMBDA p : p.number = number /\ p.roster_id = rosterId)
    IN  IF name = "" \/ Trim(name) = ""
        THEN [state |-> st, store |-> sto,
              ret |-> Thrown([message |-> "Player name is required"])]
        ELSE IF number # Null /\ number # NoValue /\ NumberError(number) # Null
        THEN [state |-> st, store |-> sto, ret |-> Thrown(NumberError(number))]
        ELSE IF number # Null /\ number # NoValue /\ duplicate # NoValue
        THEN [state |-> st, store |-> sto,
              ret |-> Thrown(NumberTaken(number, duplicate))]
        ELSE InsertPlayer(st, sto, rosterId, name, number)

\* updatePlayer: the duplicate is looked for among all the players of the
\* state but the one updated.
updatePlayer(st, sto, playerId, updates) ==
    LET checked == /\ "number" \in DOMAIN updates
                   /\ updates.number # NoValue
                   /\ updates.number # Null
        duplicate ==
            Find(st.players,
                 LAMBDA p : p.number = updates.number /\ p.id # playerId)
        r == StoreUpdate(sto, "players", updates, playerId)
        found == {i \in DOMAIN st.players : st.players[i].id = playerId}
    IN  IF checked /\ NumberError(updates.number) # Null
        THEN [state |-> st, store |-> sto,
              ret |-> Thrown(NumberError(updates.number))]
        ELSE IF checked /\ duplicate # NoValue
        THEN [state |-> st, store |-> sto,
              ret |-> Thrown(NumberTaken(updates.number, duplicate))]
        ELSE IF r.error # Null
        THEN [state |-> st, store |-> r.store, ret |-> Thrown(r.error)]
        ELSE IF found = {}
        THEN [state |-> st, store |-> r.store, ret |-> Returned(NoValue)]
        ELSE LET index == CHOOSE i \in found : \A j \in found : i <= j
                 merged == Merge(st.players[index], updates)
             IN  [state |-> [st EXCEPT !.players[index] = merged],
                  store |-> r.store, ret |-> Returned(merged)]

deleteRoster_alwaysClears(st, sto, rosterId) ==
    LET r == StoreDelete(sto, "rosters", rosterId)
    IN  IF r.error # Null
        THEN [state |-> st, store |-> r.store, ret |-> Thrown(r.error)]
        ELSE [state |-> [st EXCEPT
                  !.rosters = SelectSeq(@, LAMBDA x : x.id # rosterId),
                  !.players = SelectSeq(@, LAMBDA p : p.roster_id # rosterId),
                  !.currentRosterId = "null",
                  !.currentRoster = Null],
              store |-> r.store, ret |-> Returned(TRUE)]

deleteRoster(st, sto, rosterId) ==
    LET r == StoreDelete(sto, "rosters", rosterId)
        selected == st.currentRosterId = rosterId
    IN  IF r.error # Null
        THEN [state |-> st, store |-> r.store, ret |-> Thrown(r.error)]
        ELSE [state |-> [st EXCEPT
                  !.rosters = SelectSeq(@, LAMBDA x : x.id # rosterId),
                  !.players = SelectSeq(@, LAMBDA p : p.roster_id # rosterId),
                  !.currentRosterId = IF selected THEN "null" ELSE @,
                  !.currentRoster = IF selected THEN Null ELSE @],
              store |-> r.store, ret |-> Returned(TRUE)]

loadRosters(st, sto) ==
    LET r == StoreSelectRosters(sto)
    IN  IF r.error # Null
        THEN [state |-> st, store |-> sto, ret |-> Thrown(r.error)]
        ELSE [state |-> [st EXCEPT !.rosters = r.data], store |-> sto,
              ret |-> Returned(r.data)]

\* loadPlayers of the player tests and loadPlayersForRoster of the roster
\* tests: the same code.
loadPlayers(st, sto, rosterId) ==
    LET r == StoreSelectPlayers(sto, rosterId)
    IN  IF r.error # Null
        THEN [state |-> st, store |-> sto, ret |-> Thrown(r.error)]
        ELSE [state |-> [st EXCEPT !.players = r.data], store |-> sto,
              ret |-> Returned(r.data)]

createNewRoster(st, sto, name) ==
    LET r == StoreInsert(sto, "rosters", [name |-> Trim(name)])
    IN  IF name = "" \/ Trim(name) = ""
        THEN [state |-> st, store |-> sto,
              ret |-> Thrown([message |-> "Roster name is required"])]
        ELSE IF r.error # Null
        THEN [state |-> st, store |-> r.store, ret |-> Thrown(r.error)]
        ELSE [state |-> [st EXCEPT !.rosters = Append(@, r.data)],
              store |-> r.store, ret |-> Returned(r.data)]

updateRoster_beforeError(st, sto, rosterId, updates) ==
    LET r == StoreUpdate(sto, "rosters", updates, rosterId)
        found == {i \in DOMAIN st.rosters : st.rosters[i].id = rosterId}
    IN  IF found = {}
        THEN [state |-> st, store |-> r.store,
              ret |-> IF r.error # Null THEN Thrown(r.error) ELSE Returned(NoValue)]
        ELSE LET index == CHOOSE i \in found : \A j \in found : i <= j
                 merged == Merge(st.rosters[index], updates)
             IN  [state |-> [st EXCEPT !.rosters[index] = merged],
                  store |-> r.store,
                  ret |-> IF r.error # Null THEN Thrown(r.error)
                          ELSE Returned(merged)]

\* updateRoster: the roster of state.rosters is replaced by a merged copy;
\* state.currentRoster is not assigned.
updateRoster(st, sto, rosterId, updates) ==
    LET r == StoreUpdate(sto, "rosters", updates, rosterId)
        found == {i \in DOMAIN st.rosters : st.rosters[i].id = rosterId}
    IN  IF r.error # Null
        THEN [state |-> st, store |-> r.store, ret |-> Thrown(r.error)]
        ELSE IF found = {}
        THEN [state |-> st, store |-> r.store, ret |-> Returned(NoValue)]
        ELSE LET index == CHOOSE i \in found : \A j \in found : i <= j
                 merged == Merge(st.rosters[index], updates)
             IN  [state |-> [st EXCEPT !.rosters[index] = merged],
                  store |-> r.store, ret |-> Returned(merged)]

\* addPlayerToRoster of the roster tests: the name is checked, the number is
\* not.
addPlayerToRoster(st, sto, rosterId, name, number) ==
    IF name = "" \/ Trim(name) = ""
    THEN [state |-> st, store |-> sto,
          ret |-> Thrown([message |-> "Player name is required"])]
    ELSE InsertPlayer(st, sto, rosterId, name, number)

deletePlayer_filtersFirst(st, sto, playerId) ==
    LET r == StoreDelete(sto, "players", playerId)
    IN  [state |-> [st EXCEPT !.players =
                       SelectSeq(@, LAMBDA p : p.id # playerId)],
         store |-> r.store,
         ret |-> IF r.error # Null THEN Thrown(r.error) ELSE Returned(TRUE)]

deletePlayer(st, sto, playerId) ==
    LET r == StoreDelete(sto, "players", playerId)
    IN  IF r.error # Null
        THEN [state |-> st, store |-> r.store, ret |-> Thrown(r.error)]
        ELSE [state |-> [st EXCEPT !.players =
                            SelectSeq(@, LAMBDA p : p.id # playerId)],
              store |-> r.store, ret |-> Returned(TRUE)]

clearRosterSelection(st) ==
    [state |-> [st EXCEPT !.currentRosterId = "null", !.currentRoster = Null],
     localStorage |-> "null", ret |-> Returned(NoValue)]

\* selectRoster: the roster of the state with that id, or null; the id is
\* written to localStorage.
selectRoster(st, rosterId) ==
    LET roster == Find(st.rosters, LAMBDA x : x.id = rosterId)
        current == IF roster = NoValue THEN Null ELSE roster
    IN  [state |-> [st EXCEPT !.currentRosterId = rosterId,
                              !.currentRoster = current],
         localStorage |-> rosterId, ret |-> Returned(current)]

\* ---------------------------------------------------------- shot generators

\* Strings are sequences of characters.
Digits == <<"0", "1", "2", "3", "4", "5", "6", "7", "8", "9">>

\* Number.prototype.toString / String(n) of an integer n >= 0.
RECURSIVE toString(_)
toString(n) ==
    IF n < 10 THEN <<Digits[n + 1]>>
    ELSE Append(toString(n \div 10), Digits[(n % 10) + 1])

\* padStart(2, '0')
PadStart2(str) == IF Len(str) < 2 THEN <<"0">> \o str ELSE str

\* `${...padStart(2, '0')}:${...padStart(2, '0')}`
FormatClock(minutes, seconds) ==
    PadStart2(toString(minutes)) \o <<":">> \o PadStart2(toString(seconds))

\* timestamp.split(':')[k], k = 0 or 1, of a string with one colon.
SplitAtColon(str, k) ==
    LET colon == CHOOSE i \in DOMAIN str : str[i] = ":"
    IN  IF k = 0 THEN SubSeq(str, 1, colon - 1)
        ELSE SubSeq(str, colon + 1, Len(str))

\* parseInt of a string of digits.
RECURSIVE ParseInt(_)
ParseInt(str) ==
    IF str = <<>> THEN 0
    ELSE 10 * ParseInt(SubSeq(str, 1, Len(str) - 1))
         + (CHOOSE d \in 0..9 : Digits[d + 1] = str[Len(str)])

\* gameTime.match(/^(\d{1,2}):(\d{2})$/): one or two digits, a colon, two
\* digits, and nothing else.
MatchesClock(str) ==
    LET n == Len(str)
    IN  /\ n \in {4, 5}
        /\ str[n - 2] = ":"
        /\ \A i \in (1..n) \ {n - 2} : \E d \in DOMAIN Digits : Digits[d] = str[i]

\* isValidGameTime, of a value of any type; a string is Str of its characters.
isValidGameTime(gameTime) ==
    IF gameTime.t # "string" THEN FALSE
    ELSE IF ~MatchesClock(gameTime.s) THEN FALSE
    ELSE LET minutes == ParseInt(SplitAtColon(gameTime.s, 0))
             seconds == ParseInt(SplitAtColon(gameTime.s, 1))
         IN  minutes >= 0 /\ minutes <= 90 /\ seconds >= 0 /\ seconds < 60

isValidGameTime_secondsUpTo60(gameTime) ==
    IF gameTime.t # "string" THEN FALSE
    ELSE IF ~MatchesClock(gameTime.s) THEN FALSE
    ELSE LET minutes == ParseInt(SplitAtColon(gameTime.s, 0))
             seconds == ParseInt(SplitAtColon(gameTime.s, 1))
         IN  minutes >= 0 /\ minutes <= 90 /\ seconds >= 0 /\ seconds <= 60

\* isValidClockSeconds, of a value of any type.
isValidClockSeconds(seconds) ==
    /\ seconds.t = "number"
    /\ seconds.v >= 0
    /\ seconds.v <= 5400

\* formatTime of the clock display, of an integer number of seconds >= 0.
formatTime(seconds) ==
    LET mins == seconds \div 60
        secs == seconds % 60
    IN  FormatClock(mins, secs)

\* generateTimestamp, with the two random draws as arguments:
\* minuteDraw = floor(random() * 3), secondDraw = floor(random() * 60).
generateTimestamp(half, index, totalInHalf, minuteDraw, secondDraw) ==
    LET baseMinutes == IF half = "1st Half" THEN 0 ELSE 45
        minuteOffset == ((index * 45) \div totalInHalf) + minuteDraw
    IN  FormatClock(baseMinutes + minuteOffset, secondDraw)

\* The time fields of the shot generateShots pushes in iteration i of count.
generateShots(count, i, minuteDraw, secondDraw) ==
    LET firstHalfCount == count \div 2
        secondHalfCount == count - firstHalfCount
        half == IF i < firstHalfCount THEN "1st Half" ELSE "2nd Half"
        currentIndex == IF half = "1st Half" THEN i ELSE i - firstHalfCount
        totalInHalf == IF half = "1st Half" THEN firstHalfCount ELSE secondHalfCount
        timestamp == generateTimestamp(half, currentIndex, totalInHalf,
                                       minuteDraw, secondDraw)
    IN  [half |-> half, gameTime |-> timestamp,
         clockSeconds |-> ParseInt(SplitAtColon(timestamp, 0)) * 60
                          + ParseInt(SplitAtColon(timestamp, 1))]

\* The time fields of the shot generateLargeDataset pushes in iteration i of
\* count: the seconds of gameTime and of clockSeconds are two draws.
generateLargeDataset(count, i, secondDraw, clockDraw) ==
    LET half == IF 2 * i < count THEN "1st Half" ELSE "2nd Half"
        baseMinute == IF half = "1st Half" THEN (90 * i) \div count
                      ELSE 45 + (((2 * i - count) * 45) \div count)
    IN  [half |-> half, gameTime |-> FormatClock(baseMinute, secondDraw),
         clockSeconds |-> baseMinute * 60 + clockDraw]

\* The application state of a specification that uses the shot log alone.
AppIdle ==
    /\ earlier = [fn |-> "none"]
    /\ game = createGameState
    /\ state = createRosterState
    /\ store = EmptyStore
    /\ localStorage = "null"

\* ---------------------------------------------------------------- actions

NoCall == [fn |-> "none"]

\* The team arguments tried: the two teams, the missing team of a malformed
\* shot, and a name no shot carries.
TeamArgs == Teams \cup {"null", "invalid"}

\* The criteria objects tried: any subset of the three keys, each key with
\* 'all', values shots carry, or a value no shot carries.
CriteriaValues(key) ==
    CASE key = "team" -> {"all", "home", "invalid_team"}
      [] key = "type" -> {"all", "GOAL!"}
      [] key = "half" -> {"all", "2nd Half"}

CriteriaArgs ==
    {c \in UNION {[keys -> UNION {CriteriaValues(k) : k \in keys}] :
                     keys \in SUBSET {"team", "type", "half"}} :
        \A k \in DOMAIN c : c[k] \in CriteriaValues(k)}

\* A helper is called on the log once the previous call has returned.
CallCalculateTeamStats ==
    /\ call = NoCall
    /\ \E team \in TeamArgs :
           call' = [fn |-> "calculateTeamStats", team |-> team,
                    ret |-> calculateTeamStats(shots, team)]
    /\ UNCHANGED <<shots, appVars>>

CallCalculateHalfStats ==
    /\ call = NoCall
    /\ \E team \in Teams \cup {"invalid"}, half \in Halves :
           call' = [fn |-> "calculateHalfStats", team |-> team, half |-> half,
                    ret |-> calculateHalfStats(shots, team, half)]
    /\ UNCHANGED <<shots, appVars>>

CallCalculateTotalStats ==
    /\ call = NoCall
    /\ call' = [fn |-> "calculateTotalStats", ret |-> calculateTotalStats(shots)]
    /\ UNCHANGED <<shots, appVars>>

CallCalculateRates ==
    /\ call = NoCall
    /\ call' = [fn |-> "calculateRates",
                accuracy |-> calculateAccuracy(shots),
                conversionRate |-> calculateConversionRate(shots)]
    /\ UNCHANGED <<shots, appVars>>

CallFilterShots ==
    /\ call = NoCall
    /\ \E criteria \in CriteriaArgs :
           call' = [fn |-> "filterShots", criteria |-> criteria,
                    ret |-> filterShots(shots, criteria)]
    /\ UNCHANGED <<shots, appVars>>

CallGetFilterOptions ==
    /\ call = NoCall
    /\ call' = [fn |-> "getFilterOptions", ret |-> getFilterOptions(shots)]
    /\ UNCHANGED <<shots, appVars>>

\* The caller drops the returned value; the log is as it was.
Return ==
    /\ call # NoCall
    /\ call' = NoCall
    /\ UNCHANGED <<shots, appVars>>

Init ==
    /\ shots \in SeqsUpTo(StatsShots, MaxShots)
    /\ call = NoCall
    /\ AppIdle

Next ==
    \/ CallCalculateTeamStats
    \/ CallCalculateHalfStats
    \/ CallCalculateTotalStats
    \/ CallCalculateRates
    \/ CallFilterShots
    \/ CallGetFilterOptions
    \/ Return

\* The statistics and filter helpers on every log of at most MaxShots shots.
Spec == Init /\ [][Next]_vars

CallGetShotWeight ==
    /\ call = NoCall
    /\ \E i \in DOMAIN shots :
           call' = [fn |-> "getShotWeight", shot |-> shots[i],
                    ret |-> getShotWeight(shots[i])]
    /\ UNCHANGED <<shots, appVars>>

CallCalculateDensityGrid ==
    /\ call = NoCall
    /\ \E gridSize \in GridSizes :
           call' = [fn |-> "calculateDensityGrid", gridSize |-> gridSize,
                    ret |-> calculateDensityGrid(shots, gridSize)]
    /\ UNCHANGED <<shots, appVars>>

\* getMaxDensity(calculateDensityGrid(shots, gridSize)), as the tests chain
\* the two.
CallGetMaxDensity ==
    /\ call = NoCall
    /\ \E gridSize \in GridSizes :
           LET grid == calculateDensityGrid(shots, gridSize)
           IN  call' = [fn |-> "getMaxDensity", gridSize |-> gridSize,
                        grid |-> grid, ret |-> getMaxDensity(grid)]
    /\ UNCHANGED <<shots, appVars>>

InitHeatMap ==
    /\ shots \in SeqsUpTo(HeatMapShots, MaxGridShots)
    /\ call = NoCall
    /\ AppIdle

NextHeatMap ==
    \/ CallGetShotWeight
    \/ CallCalculateDensityGrid
    \/ CallGetMaxDensity
    \/ Return

\* The heat-map helpers on every log of at most MaxGridShots shots.
SpecHeatMap == InitHeatMap /\ [][NextHeatMap]_vars

CallGetDensityColor ==
    /\ call = NoCall
    /\ \E density \in 0..DensityMax, maxDensity \in 0..DensityMax :
           call' = [fn |-> "getDensityColor", density |-> density,
                    maxDensity |-> maxDensity,
                    ret |-> getDensityColor(density, maxDensity)]
    /\ UNCHANGED <<shots, appVars>>

InitColor ==
    /\ shots = <<>>
    /\ call = NoCall
    /\ AppIdle

NextColor ==
    \/ CallGetDensityColor
    \/ Return

\* The colour mapper on every pair of densities up to DensityMax.
SpecColor == InitColor /\ [][NextColor]_vars

\* The shots of the logs of the visibility tests: home and away shots, as in
\* homeTeamOnly, awayTeamOnly and mediumDataset.
EligibilityShots ==
    {createShot(team, "Shot On Target", "1st Half",
                DefaultPosition.x, DefaultPosition.y) : team \in Teams}

\* The page asks both conditions of a log: whether the overall heat map and
\* whether the heat map of one team can be shown.
CallCanShowHeatMap ==
    /\ call = NoCall
    /\ \E team \in TeamArgs :
           call' = [fn |-> "canShowHeatMap", team |-> team,
                    ret |-> [overall |-> canShowHeatMap(shots),
                             forTeam |-> canShowTeamHeatMap(shots, team)]]
    /\ UNCHANGED <<shots, appVars>>

InitEligibility ==
    /\ shots \in SeqsUpTo(EligibilityShots, MaxEligibilityShots)
    /\ call = NoCall
    /\ AppIdle

NextEligibility ==
    \/ CallCanShowHeatMap
    \/ Return

\* The visibility conditions on every log of home and away shots up to
\* MaxEligibilityShots.
SpecEligibility == InitEligibility /\ [][NextEligibility]_vars

\* The shots recorded in a tracked game.
GameShots ==
    {createShot(team, type, "1st Half", DefaultPosition.x, DefaultPosition.y) :
        team \in Teams, type \in {"GOAL!", "Shot Off Target"}}

\* What a caller can compare afterwards: the log and the scores.
Snapshot == [shots |-> shots, homeScore |-> game.homeScore,
             awayScore |-> game.awayScore]

\* addShot(gameState, shot).  The call keeps the snapshot taken before it.
AddShot ==
    /\ Len(shots) < MaxGameShots
    /\ \E shot \in GameShots :
           LET r == addShot(shots, game, shot)
           IN  /\ shots' = r.shots
               /\ game' = r.game
               /\ call' = [fn |-> "addShot", shot |-> shot, before |-> Snapshot]
    /\ UNCHANGED <<earlier, state, store, localStorage>>

\* undoLastShot(gameState).  The call keeps the snapshot taken before it and
\* the addShot it follows immediately, if it follows one.
UndoLastShot ==
    /\ LET r == undoLastShot(shots, game)
       IN  /\ shots' = r.shots
           /\ game' = r.game
           /\ call' = [fn |-> "undoLastShot", ret |-> r.ret, before |-> Snapshot,
                       follows |-> IF call.fn = "addShot" THEN call ELSE NoCall]
    /\ UNCHANGED <<earlier, state, store, localStorage>>

InitGame ==
    /\ shots = <<>>
    /\ call = NoCall
    /\ AppIdle

NextGame ==
    \/ AddShot
    \/ UndoLastShot

\* A tracked game: shots are added and undone in any order.
SpecGame == InitGame /\ [][NextGame]_vars

\* The shots of the goal attribution tests: goals and shots on target,
\* unattributed or of player-001, player-003 or a player deleted since.
ScorerShots ==
    {createShotWithPlayer([team |-> "home", type |-> type], playerId) :
        type \in {"GOAL!", "Shot On Target"},
        playerId \in {"null", "player-001", "player-003", "deleted-player-id"}}

\* The players lists of the goal attribution tests: none, or two players of
\* u12LightningPlayers.
ScorerPlayers ==
    {<<>>,
     <<createPlayer("player-001", "roster-001", "Alex Johnson", Num(1)),
       createPlayer("player-003", "roster-001", "Taylor Brown", Num(9))>>}

CallGetGoalScorers ==
    /\ call = NoCall
    /\ call' = [fn |-> "getGoalScorers", ret |-> getGoalScorers(shots, state.players)]
    /\ UNCHANGED <<shots, appVars>>

InitScorers ==
    /\ shots \in SeqsUpTo(ScorerShots, MaxScorerShots)
    /\ call = NoCall
    /\ earlier = NoCall
    /\ game = createGameState
    /\ \E players \in ScorerPlayers :
           state = [createRosterState EXCEPT !.players = players]
    /\ store = EmptyStore
    /\ localStorage = "null"

NextScorers ==
    \/ CallGetGoalScorers
    \/ Return

\* The goal scorers of every log up to MaxScorerShots, with and without the
\* players who scored.
SpecScorers == InitScorers /\ [][NextScorers]_vars

\* The tables of the mock store after resetMocks(): multipleRosters, and
\* players of u12EaglesPlayers and u14ThunderPlayers; number 5 is held in
\* roster-002 alone.
RosterFixture ==
    <<createRoster("roster-001", "U12 Eagles"),
      createRoster("roster-002", "U14 Thunder"),
      createRoster("roster-003", "U16 Lightning")>>

PlayerFixture ==
    <<createPlayer("player-001", "roster-001", "Alex Johnson", Num(1)),
      createPlayer("player-007", "roster-001", "Jamie Anderson", Null),
      createPlayer("player-102", "roster-002", "Charlie Garcia", Num(5))>>

RosterIds == {"roster-001", "roster-002"}

\* Names handed to addPlayer: empty, blank, and one to be trimmed.
PlayerNames == {"", "  ", " Kim Lee "}

\* Numbers handed to addPlayer: none, values that are not numbers, numbers
\* outside [1,99], and numbers players hold.
PlayerNumbers ==
    {Null, NoValue, NaN, Str("10"), Num(0), Num(100), Num(1), Num(5)}

\* What a caller can compare afterwards: the local state and the store.
Recorded == [state |-> state, store |-> store]

\* setMockError / resetMocks of the mock: the store starts or stops answering
\* with an error.
SetMockError ==
    /\ call = NoCall
    /\ store' = [store EXCEPT !.error =
                    IF @ = "null" THEN "Database error" ELSE "null"]
    /\ UNCHANGED <<shots, call, earlier, game, state, localStorage>>

\* addPlayer(state, userId, rosterId, name, number).
AddPlayer ==
    /\ call = NoCall
    /\ \E rosterId \in RosterIds, name \in PlayerNames, number \in PlayerNumbers :
           LET r == addPlayer(state, store, rosterId, name, number)
           IN  /\ r.store.inserted <= MaxInserts
               /\ state' = r.state
               /\ store' = r.store
               /\ call' = [fn |-> "addPlayer", rosterId |-> rosterId,
                           name |-> name, number |-> number,
                           before |-> Recorded, ret |-> r.ret]
    /\ UNCHANGED <<shots, earlier, game, localStorage>>

\* updatePlayer(state, playerId, updates), for a player of the state or an id
\* no player has, with a number as the update.
UpdatePlayer ==
    /\ call = NoCall
    /\ \E playerId \in {state.players[i].id : i \in DOMAIN state.players}
                           \cup {"player-999"},
          number \in {Null, Str("10"), Num(100), Num(1), Num(5)} :
           LET updates == [number |-> number]
               r == updatePlayer(state, store, playerId, updates)
           IN  /\ state' = r.state
               /\ store' = r.store
               /\ call' = [fn |-> "updatePlayer", playerId |-> playerId,
                           updates |-> updates,
                           before |-> Recorded, ret |-> r.ret]
    /\ UNCHANGED <<shots, earlier, game, localStorage>>

\* loadRosters(state, userId).
LoadRosters ==
    /\ call = NoCall
    /\ LET r == loadRosters(state, store)
       IN  /\ state' = r.state
           /\ store' = r.store
           /\ call' = [fn |-> "loadRosters", before |-> Recorded, ret |-> r.ret]
    /\ UNCHANGED <<shots, earlier, game, localStorage>>

\* loadPlayers(state, rosterId) and loadPlayersForRoster(state, rosterId).
LoadPlayers ==
    /\ call = NoCall
    /\ \E rosterId \in RosterIds :
           LET r == loadPlayers(state, store, rosterId)
           IN  /\ state' = r.state
               /\ store' = r.store
               /\ call' = [fn |-> "loadPlayers", rosterId |-> rosterId,
                           before |-> Recorded, ret |-> r.ret]
    /\ UNCHANGED <<shots, earlier, game, localStorage>>

RosterNames == {"", " U10 Comets "}

\* createNewRoster(state, userId, name).
CreateNewRoster ==
    /\ call = NoCall
    /\ \E name \in RosterNames :
           LET r == createNewRoster(state, store, name)
           IN  /\ r.store.inserted <= MaxInserts
               /\ state' = r.state
               /\ store' = r.store
               /\ call' = [fn |-> "createNewRoster", name |-> name,
                           before |-> Recorded, ret |-> r.ret]
    /\ UNCHANGED <<shots, earlier, game, localStorage>>

\* updateRoster(state, rosterId, { name: 'New Name' }), for a roster of the
\* fixture.
UpdateRoster ==
    /\ call = NoCall
    /\ \E rosterId \in {RosterFixture[i].id : i \in DOMAIN RosterFixture} :
           LET updates == [name |-> "New Name"]
               r == updateRoster(state, store, rosterId, updates)
           IN  /\ state' = r.state
               /\ store' = r.store
               /\ call' = [fn |-> "updateRoster", rosterId |-> rosterId,
                           updates |-> updates,
                           before |-> Recorded, ret |-> r.ret]
    /\ UNCHANGED <<shots, earlier, game, localStorage>>

\* addPlayerToRoster(state, userId, rosterId, name, number).
AddPlayerToRoster ==
    /\ call = NoCall
    /\ \E rosterId \in RosterIds, name \in PlayerNames,
          number \in {Null, NoValue, Num(0), Num(5)} :
           LET r == addPlayerToRoster(state, store, rosterId, name, number)
           IN  /\ r.store.inserted <= MaxInserts
               /\ state' = r.state
               /\ store' = r.store
               /\ call' = [fn |-> "addPlayerToRoster", rosterId |-> rosterId,
                           name |-> name, number |-> number,
                           before |-> Recorded, ret |-> r.ret]
    /\ UNCHANGED <<shots, earlier, game, localStorage>>

\* deletePlayer(state, playerId), for a player of the fixture.
DeletePlayer ==
    /\ call = NoCall
    /\ \E playerId \in {PlayerFixture[i].id : i \in DOMAIN PlayerFixture} :
           LET r == deletePlayer(state, store, playerId)
           IN  /\ state' = r.state
               /\ store' = r.store
               /\ call' = [fn |-> "deletePlayer", playerId |-> playerId,
                           before |-> Recorded, ret |-> r.ret]
    /\ UNCHANGED <<shots, earlier, game, localStorage>>

\* clearRosterSelection(state).
ClearRosterSelection ==
    /\ call = NoCall
    /\ LET r == clearRosterSelection(state)
       IN  /\ state' = r.state
           /\ localStorage' = r.localStorage
           /\ call' = [fn |-> "clearRosterSelection", before |-> Recorded,
                       ret |-> r.ret]
    /\ UNCHANGED <<shots, earlier, game, store>>

InitPlayers ==
    /\ shots = <<>>
    /\ call = NoCall
    /\ earlier = NoCall
    /\ game = createGameState
    /\ state = [createRosterState EXCEPT !.players = PlayerFixture]
    /\ store = [EmptyStore EXCEPT !.rosters = RosterFixture,
                                  !.players = PlayerFixture]
    /\ localStorage = "null"

NextPlayers ==
    \/ AddPlayer
    \/ UpdatePlayer
    \/ SetMockError
    \/ Return

\* Player management on a state that holds the players of two rosters, with
\* a store that may answer with an error.
SpecPlayers == InitPlayers /\ [][NextPlayers]_vars

NextNumbers ==
    \/ LoadPlayers
    \/ AddPlayer
    \/ UpdatePlayer
    \/ DeletePlayer
    \/ Return

\* The four player functions in any order, on a store that answers without
\* an error: the state starts with the players of two rosters and can load
\* those of one.
SpecNumbers == InitPlayers /\ [][NextNumbers]_vars

\* deleteRoster(state, rosterId).
DeleteRoster ==
    /\ call = NoCall
    /\ \E rosterId \in {state.rosters[i].id : i \in DOMAIN state.rosters} :
           LET r == deleteRoster(state, store, rosterId)
           IN  /\ state' = r.state
               /\ store' = r.store
               /\ call' = [fn |-> "deleteRoster", rosterId |-> rosterId,
                           before |-> Recorded, ret |-> r.ret]
    /\ UNCHANGED <<shots, earlier, game, localStorage>>

\* selectRoster(state, rosterId), for a roster of the fixture.
SelectRoster ==
    /\ call = NoCall
    /\ \E rosterId \in {RosterFixture[i].id : i \in DOMAIN RosterFixture} :
           LET r == selectRoster(state, rosterId)
           IN  /\ state' = r.state
               /\ localStorage' = r.localStorage
               /\ call' = [fn |-> "selectRoster", rosterId |-> rosterId,
                           before |-> Recorded, ret |-> r.ret]
    /\ UNCHANGED <<shots, earlier, game, store>>

InitRosters ==
    /\ shots = <<>>
    /\ call = NoCall
    /\ earlier = NoCall
    /\ game = createGameState
    /\ state = [createRosterState EXCEPT !.rosters = RosterFixture,
                                         !.players = PlayerFixture]
    /\ store = [EmptyStore EXCEPT !.rosters = RosterFixture,
                                  !.players = PlayerFixture]
    /\ localStorage = "null"

NextRosters ==
    \/ UpdateRoster
    \/ DeleteRoster
    \/ SelectRoster
    \/ ClearRosterSelection
    \/ SetMockError
    \/ Return

\* Roster management on a state loaded with three rosters and the players of
\* two of them.
SpecRosters == InitRosters /\ [][NextRosters]_vars

\* The state after loadRosters and loadPlayersForRoster of one roster, on a
\* store of two rosters with one player each.
InitStore ==
    /\ shots = <<>>
    /\ call = NoCall
    /\ earlier = NoCall
    /\ game = createGameState
    /\ store = [EmptyStore EXCEPT
                   !.rosters = SubSeq(RosterFixture, 1, 2),
                   !.players = <<PlayerFixture[1], PlayerFixture[3]>>]
    /\ \E rosterId \in RosterIds :
           state = loadPlayers(loadRosters(createRosterState, store).state,
                               store, rosterId).state
    /\ localStorage = "null"

NextStore ==
    \/ CreateNewRoster
    \/ UpdateRoster
    \/ DeleteRoster
    \/ AddPlayerToRoster
    \/ UpdatePlayer
    \/ DeletePlayer
    \/ SetMockError
    \/ Return

\* Roster and player management of the roster screens on a state loaded from
\* the store, with a store that may answer with an error.
SpecStore == InitStore /\ [][NextStore]_vars

NextErrors ==
    \/ LoadRosters
    \/ CreateNewRoster
    \/ UpdateRoster
    \/ DeleteRoster
    \/ AddPlayer
    \/ UpdatePlayer
    \/ DeletePlayer
    \/ SetMockError
    \/ Return

\* The seven functions that ask the store, with a store that may answer with
\* an error.
SpecErrors == InitStore /\ [][NextErrors]_vars

\* The counts asked of the generators: one shot, the script's default, the
\* counts of its usage examples, and the 100 of largeDataset.
GeneratorCounts == {1, 20, 50, 100}

\* Outcomes of floor(random() * 60) tried.
SecondDraws == {0, 7, 59}

CallGenerateShots ==
    /\ call = NoCall
    /\ \E count \in GeneratorCounts : \E i \in 0..(count - 1) :
       \E minuteDraw \in 0..2, secondDraw \in SecondDraws :
           call' = [fn |-> "generateShots", count |-> count, i |-> i,
                    ret |-> generateShots(count, i, minuteDraw, secondDraw)]
    /\ UNCHANGED <<shots, appVars>>

CallGenerateLargeDataset ==
    /\ call = NoCall
    /\ \E count \in GeneratorCounts : \E i \in 0..(count - 1) :
       \E secondDraw \in SecondDraws, clockDraw \in SecondDraws :
           call' = [fn |-> "generateLargeDataset", count |-> count, i |-> i,
                    ret |-> generateLargeDataset(count, i, secondDraw, clockDraw)]
    /\ UNCHANGED <<shots, appVars>>

InitGenerators ==
    /\ shots = <<>>
    /\ call = NoCall
    /\ AppIdle

NextGenerators ==
    \/ CallGenerateShots
    \/ CallGenerateLargeDataset
    \/ Return

\* Every iteration of the two generators, for the counts and draws above.
SpecGenerators == InitGenerators /\ [][NextGenerators]_vars

\* Shots of both teams, halves and sides of the halfway line, of the three
\* types.
AnalyticsShots ==
    {createShot("home", "GOAL!", "1st Half", HalfUnits(90), HalfUnits(34)),
     createShot("away", "Shot On Target", "2nd Half", HalfUnits(90), HalfUnits(34)),
     createShot("home", "Shot Off Target", "2nd Half", HalfUnits(80), HalfUnits(20)),
     createShot("away", "Shot Off Target", "1st Half", HalfUnits(30), HalfUnits(34))}

CallGetHeatMapShots_inPlace ==
    /\ call = NoCall
    /\ \E teamFilter \in Teams \cup {"all"} :
           /\ call' = [fn |-> "getHeatMapShots", teamFilter |-> teamFilter,
                       ret |-> getHeatMapShots(shots, teamFilter)]
           /\ shots' = getHeatMapShots(shots, teamFilter)
    /\ UNCHANGED appVars

\* getHeatMapShots(shots, teamFilter): filter builds new arrays and the log
\* is left as it was.
CallGetHeatMapShots ==
    /\ call = NoCall
    /\ \E teamFilter \in Teams \cup {"all"} :
           call' = [fn |-> "getHeatMapShots", teamFilter |-> teamFilter,
                    ret |-> getHeatMapShots(shots, teamFilter)]
    /\ UNCHANGED <<shots, appVars>>

\* The caller keeps the call just made, to compare a later one with it.
Keep ==
    /\ call # NoCall
    /\ earlier' = call
    /\ call' = NoCall
    /\ UNCHANGED <<shots, game, state, store, localStorage>>

InitAnalytics ==
    /\ shots \in SeqsUpTo(AnalyticsShots, MaxAnalyticsShots)
    /\ call = NoCall
    /\ AppIdle

NextAnalytics ==
    \/ CallFilterShots
    \/ CallGetFilterOptions
    \/ CallCalculateTeamStats
    \/ CallCalculateTotalStats
    \/ CallGetHeatMapShots
    \/ CallCalculateDensityGrid
    \/ Keep
    \/ Return

\* The analytics functions called on one log again and again, in any order.
SpecAnalytics == InitAnalytics /\ [][NextAnalytics]_vars

\* Shots of both teams and of every type, an unknown one included, just
\* before, on and just beyond the halfway line x = 52.5.
WeightingShots ==
    {createShot(team, type, "1st Half", x, HalfUnits(34)) :
        team \in Teams, type \in Types \cup {"Penalty"},
        x \in {HalfUnits(52), 105, HalfUnits(53)}}

InitWeighting ==
    /\ shots \in SeqsUpTo(WeightingShots, MaxGridShots)
    /\ call = NoCall
    /\ AppIdle

NextWeighting ==
    \/ CallGetHeatMapShots
    \/ CallGetShotWeight
    \/ CallCalculateDensityGrid
    \/ Return

\* The filter and the weight of the heat map on the same logs.
SpecWeighting == InitWeighting /\ [][NextWeighting]_vars

\* Strings tried as game times: every MM:SS up to 91:60, the same with a
\* single-digit minute, and the malformed ones of the tests.
GameTimes ==
    {Str(FormatClock(m, s)) : m \in 0..91, s \in 0..60}
    \cup {Str(toString(m) \o <<":">> \o PadStart2(toString(s))) :
             m \in 0..9, s \in 0..60}
    \cup {Str(<<"1", "5">>), Str(<<"1", "5", ":", "3">>),
          Str(<<"1", "5", ":", "3", "0", "0">>), Str(<<"1", "2", "0", ":", "0", "0">>),
          Str(<<"i", "n", "v", "a", "l", "i", "d">>), Num(930), Null}

\* Values tried as clock seconds: the integers from -1 to a minute past the
\* 90th, and the non-numbers of the tests.
ClockValues ==
    {Num(c) : c \in -1..5460} \cup {NaN, Null, Str(<<"i", "n", "v", "a", "l", "i", "d">>)}

CallIsValidGameTime ==
    /\ call = NoCall
    /\ \E gameTime \in GameTimes :
           call' = [fn |-> "isValidGameTime", gameTime |-> gameTime,
                    ret |-> isValidGameTime(gameTime)]
    /\ UNCHANGED <<shots, appVars>>

CallIsValidClockSeconds ==
    /\ call = NoCall
    /\ \E seconds \in ClockValues :
           call' = [fn |-> "isValidClockSeconds", seconds |-> seconds,
                    ret |-> isValidClockSeconds(seconds)]
    /\ UNCHANGED <<shots, appVars>>

CallFormatTime ==
    /\ call = NoCall
    /\ \E seconds \in 0..5460 :
           call' = [fn |-> "formatTime", seconds |-> seconds,
                    ret |-> formatTime(seconds)]
    /\ UNCHANGED <<shots, appVars>>

InitTime ==
    /\ shots = <<>>
    /\ call = NoCall
    /\ AppIdle

NextTime ==
    \/ CallIsValidGameTime
    \/ CallIsValidClockSeconds
    \/ CallFormatTime
    \/ Return

\* The two validators of a shot's time and the formatter of the clock.
SpecTime == InitTime /\ [][NextTime]_vars

\* ----------------------------------------------------- statistics: claims

\* Number of shots of the log that satisfy P.
CountShots(P(_)) == Cardinality({i \in DOMAIN shots : P(shots[i])})

\* C1: calculateTeamStats(S, t) returns goals = the number of shots of team t
\* of type GOAL!, onTarget = goals + the number of type Shot On Target (so
\* onTarget >= goals), offTarget = the number of type Shot Off Target and
\* total = the number of shots of team t; all four are 0 when no shot has team t.
C1_TeamStatsCounts ==
    call.fn = "calculateTeamStats" =>
        LET OfType(type) ==
                CountShots(LAMBDA s : s.team = call.team /\ s.type = type)
            ofTeam == CountShots(LAMBDA s : s.team = call.team)
            r == call.ret
        IN  /\ DOMAIN r = {"goals", "onTarget", "offTarget", "total"}
            /\ r.goals = OfType("GOAL!")
            /\ r.onTarget = r.goals + OfType("Shot On Target")
            /\ r.onTarget >= r.goals
            /\ r.offTarget = OfType("Shot Off Target")
            /\ r.total = ofTeam
            /\ ofTeam = 0 =>
                   r.goals = 0 /\ r.onTarget = 0 /\ r.offTarget = 0 /\ r.total = 0

\* A team with a goal, a saved shot and a miss has been counted.
C1_Witness ==
    /\ call.fn = "calculateTeamStats"
    /\ call.ret.goals = 1
    /\ call.ret.onTarget = 2
    /\ call.ret.offTarget = 1

\* C2: when every shot has one of the three types, calculateTeamStats gives
\* total = goals + (onTarget - goals) + offTarget for each team; when every
\* shot's team is home or away, calculateTotalStats(S).total is
\* home.total + away.total.
C2_TotalsAddUp ==
    /\ (/\ call.fn = "calculateTeamStats"
        /\ \A i \in DOMAIN shots : shots[i].type \in Types)
       => LET r == call.ret
          IN  r.total = r.goals + (r.onTarget - r.goals) + r.offTarget
    /\ (/\ call.fn = "calculateTotalStats"
        /\ \A i \in DOMAIN shots : shots[i].team \in Teams)
       => LET r == call.ret
          IN  r.total = r.home.total + r.away.total

\* Both teams have shots and the totals of the two teams were added up.
C2_Witness ==
    /\ call.fn = "calculateTotalStats"
    /\ \A i \in DOMAIN shots : shots[i].team \in Teams /\ shots[i].type \in Types
    /\ call.ret.home.total = 2
    /\ call.ret.away.total = 1
    /\ call.ret.home.goals = 1

\* C3: calculateHalfStats returns {goals, onTarget, offTarget, total} for the
\* shots of that team and half, with onTarget = goals + the number of Shot
\* On Target and total = the number of shots of that team in that half.
C3_HalfStatsAsTeamStats ==
    call.fn = "calculateHalfStats" =>
        LET InHalf(s) == s.team = call.team /\ s.half = call.half
            r == call.ret
        IN  /\ r.goals = CountShots(LAMBDA s : InHalf(s) /\ s.type = "GOAL!")
            /\ r.onTarget =
                   r.goals + CountShots(LAMBDA s : InHalf(s) /\ s.type = "Shot On Target")
            /\ r.offTarget =
                   CountShots(LAMBDA s : InHalf(s) /\ s.type = "Shot Off Target")
            /\ "total" \in DOMAIN r
            /\ r.total = CountShots(InHalf)

\* Cross-multiplied comparisons of two fractions with positive denominators.
FracEq(a, b) == a.num * b.den = b.num * a.den
FracLeq(a, b) == a.num * b.den <= b.num * a.den
FracLt(a, b) == a.num * b.den < b.num * a.den

\* C4: accuracy(S) = 100 * (goals + shots on target) / |S| and
\* conversionRate(S) = 100 * goals / |S|; both are 0, not the result of a
\* division by zero, for the empty log; 0 <= conversionRate <= accuracy <= 100.
C4_Rates ==
    call.fn = "calculateRates" =>
        LET goals == CountShots(LAMBDA s : s.type = "GOAL!")
            saved == CountShots(LAMBDA s : s.type = "Shot On Target")
            n == Len(shots)
            hundred == [num |-> 100, den |-> 1]
            zero == [num |-> 0, den |-> 1]
            acc == call.accuracy
            conv == call.conversionRate
        IN  /\ acc.den > 0
            /\ conv.den > 0
            /\ n = 0 => acc.num = 0 /\ conv.num = 0
            /\ n > 0 => /\ FracEq(acc, [num |-> 100 * (goals + saved), den |-> n])
                        /\ FracEq(conv, [num |-> 100 * goals, den |-> n])
            /\ FracLeq(zero, conv)
            /\ FracLeq(conv, acc)
            /\ FracLeq(acc, hundred)

\* A log with a goal, a saved shot and a miss: 0 < conversion < accuracy < 100.
C4_Witness ==
    /\ call.fn = "calculateRates"
    /\ call.accuracy.den > 0
    /\ call.conversionRate.den > 0
    /\ FracLt([num |-> 0, den |-> 1], call.conversionRate)
    /\ FracLt(call.conversionRate, call.accuracy)
    /\ FracLt(call.accuracy, [num |-> 100, den |-> 1])

\* --------------------------------------------------------- filter: claims

\* A shot equals every criterion that is given and is not 'all'.
Matches(s, criteria) ==
    \A key \in DOMAIN criteria : criteria[key] # "all" => s[key] = criteria[key]

\* The j-th smallest index of the set K.
NthIndex(K, j) == CHOOSE i \in K : Cardinality({k \in K : k <= i}) = j

\* C5: filterShots returns exactly the shots of S that equal every criterion
\* that is given and is not 'all', in their order in S; with no criterion (or
\* every criterion 'all') the result is S, and a criterion value no shot
\* carries gives the empty sequence.
C5_FilterShots ==
    call.fn = "filterShots" =>
        LET c == call.criteria
            r == call.ret
            kept == {i \in DOMAIN shots : Matches(shots[i], c)}
        IN  /\ Len(r) = Cardinality(kept)
            /\ \A j \in 1..Len(r) : r[j] = shots[NthIndex(kept, j)]
            /\ (\A key \in DOMAIN c : c[key] = "all") => r = shots
            /\ (\E key \in DOMAIN c :
                    /\ c[key] # "all"
                    /\ \A i \in DOMAIN shots : shots[i][key] # c[key])
               => r = <<>>

\* Two criteria were applied and the middle shot of three was dropped.
C5_Witness ==
    /\ call.fn = "filterShots"
    /\ DOMAIN call.criteria = {"team", "type", "half"}
    /\ call.criteria.team = "home"
    /\ call.criteria.type = "GOAL!"
    /\ call.criteria.half = "all"
    /\ Len(shots) = 3
    /\ shots[1] # shots[3]
    /\ call.ret = <<shots[1], shots[3]>>

\* The set of elements of a sequence.
Range(seq) == {seq[i] : i \in DOMAIN seq}

\* C6: getFilterOptions returns, for each of team, type and half, exactly the
\* values that occur in S, each once; all three are empty for the empty log.
C6_FilterOptions ==
    call.fn = "getFilterOptions" =>
        LET r == call.ret
        IN  /\ Range(r.teams) = {shots[i].team : i \in DOMAIN shots}
            /\ Range(r.types) = {shots[i].type : i \in DOMAIN shots}
            /\ Range(r.halves) = {shots[i].half : i \in DOMAIN shots}
            /\ Len(r.teams) = Cardinality(Range(r.teams))
            /\ Len(r.types) = Cardinality(Range(r.types))
            /\ Len(r.halves) = Cardinality(Range(r.halves))
            /\ shots = <<>> => r.teams = <<>> /\ r.types = <<>> /\ r.halves = <<>>

\* A value that occurs twice in a log of three was listed once.
C6_Witness ==
    /\ call.fn = "getFilterOptions"
    /\ Len(shots) = 3
    /\ shots[1].team = shots[3].team
    /\ shots[1].team # shots[2].team
    /\ Len(call.ret.teams) = 2
    /\ Len(call.ret.types) = 3

\* ------------------------------------------------------- heat map: claims

\* Sum of the weights of the shots of the log whose index is in I.
RECURSIVE WeightSum(_)
WeightSum(I) ==
    IF I = {} THEN 0
    ELSE LET i == CHOOSE k \in I : TRUE
         IN  getShotWeight(shots[i]) + WeightSum(I \ {i})

OnPitch(p) ==
    /\ 0 <= p.x /\ p.x <= HalfUnits(FIELD_WIDTH)
    /\ 0 <= p.y /\ p.y <= HalfUnits(FIELD_HEIGHT)

\* The cell of a position on the pitch when the upper boundary is clamped
\* into the last cell of its axis.
ClampedCell(p, gridSize, rows, cols) ==
    [row |-> IF p.y = HalfUnits(FIELD_HEIGHT) THEN rows - 1 ELSE p.y \div gridSize,
     col |-> IF p.x = HalfUnits(FIELD_WIDTH) THEN cols - 1 ELSE p.x \div gridSize]

\* C7: a shot with x = 105 or y = 68 is binned by calculateDensityGrid into
\* the last cell of that axis (column cols-1, row rows-1) and its weight is
\* added there: the cell holds the weights of all the shots that belong to it.
C7_BoundaryShotBinned ==
    call.fn = "calculateDensityGrid" =>
        LET grid == call.ret
            rows == Cardinality(DOMAIN grid)
            cols == Cardinality(DOMAIN grid[0])
            CellOf(i) == ClampedCell(shots[i].position, call.gridSize, rows, cols)
        IN  \A i \in DOMAIN shots :
                (/\ OnPitch(shots[i].position)
                 /\ \/ shots[i].position.x = HalfUnits(FIELD_WIDTH)
                    \/ shots[i].position.y = HalfUnits(FIELD_HEIGHT))
                => grid[CellOf(i).row][CellOf(i).col] =
                       WeightSum({k \in DOMAIN shots :
                                     /\ OnPitch(shots[k].position)
                                     /\ CellOf(k) = CellOf(i)})

C9_GridShape ==
    call.fn = "calculateDensityGrid" =>
        LET grid == call.ret
            g == call.gridSize
            rows == Cardinality(DOMAIN grid)
            \* n = ceil(v / g): n is the least number of cells that cover v
            IsCeil(n, v) == (n - 1) * g < v /\ v <= n * g
        IN  /\ DOMAIN grid = 0..(rows - 1)
            /\ IsCeil(rows, HalfUnits(FIELD_HEIGHT))
            /\ \A row \in DOMAIN grid :
                   /\ DOMAIN grid[row] = 0..(Cardinality(DOMAIN grid[row]) - 1)
                   /\ IsCeil(Cardinality(DOMAIN grid[row]), HalfUnits(FIELD_WIDTH))
                   /\ \A col \in DOMAIN grid[row] :
                          /\ grid[row][col] >= 0
                          /\ shots = <<>> => grid[row][col] = 0

\* A grid whose cell size divides neither side was built from a log holding
\* a shot off the pitch and a shot that was binned.
C9_Witness ==
    /\ call.fn = "calculateDensityGrid"
    /\ call.gridSize = 15
    /\ Len(shots) = 2
    /\ ~OnPitch(shots[1].position)
    /\ \E row \in DOMAIN call.ret : \E col \in DOMAIN call.ret[row] :
           call.ret[row][col] > 0

\* C10: getDensityColor returns 'transparent' whenever density = 0 or
\* maxDensity = 0, and a colour other than 'transparent' for every
\* density > 0 with maxDensity > 0.
C10_TransparentIffNoData ==
    call.fn = "getDensityColor" =>
        /\ (call.density = 0 \/ call.maxDensity = 0) => call.ret.css = "transparent"
        /\ (call.density > 0 /\ call.maxDensity > 0) => call.ret.css = "rgba"

\* A positive density was coloured against a maximum of zero.
C10_Witness ==
    /\ call.fn = "getDensityColor"
    /\ call.density > 0
    /\ call.maxDensity = 0
    /\ call.ret.css = "transparent"

\* The band of n = density / maxDensity, 0 < density <= maxDensity: band k is
\* [(k - 1) / 5, k / 5), and the last band holds n = 1 as well.
Band(density, maxDensity) ==
    CHOOSE k \in 1..5 :
        /\ (k - 1) * maxDensity <= 5 * density
        /\ 5 * density < k * maxDensity \/ (k = 5 /\ density = maxDensity)

\* The colours of the bands, from the lowest: blue, cyan, green, yellow, red.
BandRgb ==
    <<(<<0, 0, 255>>), (<<0, 255, 255>>), (<<0, 255, 0>>),
      (<<255, 255, 0>>), (<<255, 0, 0>>)>>

\* C11: for 0 < density <= maxDensity, getDensityColor gives n = density /
\* maxDensity the colour of its band among [0,0.2), [0.2,0.4), [0.4,0.6),
\* [0.6,0.8), [0.8,1.0] (lower bounds inclusive); values of n in different
\* bands get different colours, and every alpha of a band is strictly greater
\* than every alpha of a lower band.
C11_ColourBands ==
    (call.fn = "getDensityColor" /\ 0 < call.density
                                 /\ call.density <= call.maxDensity) =>
        LET b == Band(call.density, call.maxDensity)
        IN  /\ call.ret.css = "rgba"
            /\ call.ret.rgb = BandRgb[b]
            /\ \A m2 \in 1..DensityMax : \A d2 \in 1..m2 :
                   LET other == getDensityColor(d2, m2)
                   IN  /\ Band(d2, m2) # b => other # call.ret
                       /\ Band(d2, m2) < b => FracLt(other.alpha, call.ret.alpha)

\* n = 0.2, the inclusive lower bound of the second band, was coloured cyan.
C11_Witness ==
    /\ call.fn = "getDensityColor"
    /\ call.density > 0
    /\ 5 * call.density = call.maxDensity
    /\ call.ret.rgb = <<0, 255, 255>>

\* C12: canShowHeatMap(S) is true exactly when |S| >= 10 and
\* canShowTeamHeatMap(S, team) exactly when S has at least 10 shots of that
\* team; so the second implies the first.
C12_HeatMapVisibility ==
    call.fn = "canShowHeatMap" =>
        /\ call.ret.overall <=> Len(shots) >= 10
        /\ call.ret.forTeam <=>
               CountShots(LAMBDA s : s.team = call.team) >= 10
        /\ call.ret.forTeam => call.ret.overall

\* A log of exactly ten shots, not all of one team, can show the overall heat
\* map and not the team's.
C12_Witness ==
    /\ call.fn = "canShowHeatMap"
    /\ Len(shots) = 10
    /\ call.ret.overall
    /\ ~call.ret.forTeam
    /\ call.team = "home"

\* ---------------------------------------------------- shot tracker: claims

\* C13: undo is last-in-first-out and reverses the score effect: an
\* undoLastShot that follows addShot(s) immediately returns s and restores the
\* log, homeScore and awayScore to their values before the addShot; undoing a
\* shot that is not a goal changes neither score.
C13_UndoReversesAdd ==
    call.fn = "undoLastShot" =>
        /\ call.before.shots # <<>> =>
               /\ call.ret = call.before.shots[Len(call.before.shots)]
               /\ shots = SubSeq(call.before.shots, 1, Len(call.before.shots) - 1)
        /\ call.follows.fn = "addShot" =>
               /\ call.ret = call.follows.shot
               /\ Snapshot = call.follows.before
        /\ call.ret.type # "GOAL!" =>
               /\ game.homeScore = call.before.homeScore
               /\ game.awayScore = call.before.awayScore

\* A home goal added to a log that already held a shot was undone at once.
C13_Witness ==
    /\ call.fn = "undoLastShot"
    /\ call.follows.fn = "addShot"
    /\ call.ret.type = "GOAL!"
    /\ call.ret.team = "home"
    /\ call.before.homeScore = game.homeScore + 1
    /\ shots # <<>>

\* C14: undoLastShot on an empty log returns undefined and leaves the log
\* empty and both scores as they were; after every addShot and undoLastShot
\* the undo button is disabled exactly when the log is empty.
C14_UndoOnEmptyLog ==
    /\ (call.fn = "undoLastShot" /\ call.before.shots = <<>>) =>
           /\ call.ret = Undefined
           /\ Snapshot = call.before
    /\ call.fn \in {"addShot", "undoLastShot"} =>
           (game.undoDisabled <=> shots = <<>>)

\* undoLastShot was called on an empty log.
C14_Witness ==
    /\ call.fn = "undoLastShot"
    /\ call.before.shots = <<>>
    /\ call.ret = Undefined
    /\ game.undoDisabled

\* ------------------------------------------------------- players: claims

\* C15: getGoalScorers returns exactly one entry per player id, other than
\* null, that has a GOAL! shot, with goals = getPlayerGoals(shots, playerId),
\* entries ordered by goals non-increasing, and playerName 'Unknown' when the
\* player id is absent from the players list.
C15_GoalScorers ==
    call.fn = "getGoalScorers" =>
        LET r == call.ret
            scorers == {shots[i].playerId : i \in
                           {j \in DOMAIN shots : /\ shots[j].type = "GOAL!"
                                                 /\ shots[j].playerId # "null"}}
            known == {state.players[i].id : i \in DOMAIN state.players}
        IN  /\ {r[i].playerId : i \in DOMAIN r} = scorers
            /\ Len(r) = Cardinality(scorers)
            /\ \A i \in DOMAIN r :
                   /\ r[i].goals = getPlayerGoals(shots, r[i].playerId)
                   /\ r[i].goals =
                          CountShots(LAMBDA s : /\ s.type = "GOAL!"
                                                /\ s.playerId = r[i].playerId)
                   /\ r[i].playerId \notin known => r[i].playerName = "Unknown"
                   /\ r[i].playerId \in known => r[i].playerName # "Unknown"
            /\ \A i \in 1..(Len(r) - 1) : r[i].goals >= r[i + 1].goals

\* A player deleted since scored first and once, a known player twice: the
\* known player is listed first and the other as 'Unknown'.
C15_Witness ==
    /\ call.fn = "getGoalScorers"
    /\ Len(shots) = 3
    /\ shots[1].playerId = "deleted-player-id"
    /\ Len(call.ret) = 2
    /\ call.ret[1].goals = 2
    /\ call.ret[2].playerName = "Unknown"
    /\ state.players # <<>>

\* A number in [1,99].
ValidNumber(number) == number.t = "number" /\ number.v >= 1 /\ number.v <= 99

C17_ConflictWithinRosterOnly ==
    LET players == call.before.state.players
        HeldIn(rosterId, number, but) ==
            \E i \in DOMAIN players : /\ players[i].roster_id = rosterId
                                      /\ players[i].number = number
                                      /\ players[i].id # but
    IN  /\ (/\ call.fn = "addPlayer"
            /\ Trim(call.name) # ""
            /\ ValidNumber(call.number)
            /\ ~HeldIn(call.rosterId, call.number, "null")
            /\ call.before.store.error = "null") => ~call.ret.threw
        /\ (/\ call.fn = "updatePlayer"
            /\ ValidNumber(call.updates.number)
            /\ call.before.store.error = "null") =>
               \A i \in DOMAIN players :
                   (/\ players[i].id = call.playerId
                    /\ ~HeldIn(players[i].roster_id, call.updates.number,
                               call.playerId)) => ~call.ret.threw

\* ------------------------------------------------------- rosters: claims

\* C18: after a successful deleteRoster(r) the state holds no roster with id
\* r and no player of roster r, the players of other rosters are all kept,
\* and the selection is cleared to null if r was the selected roster and left
\* unchanged otherwise.
C18_DeleteRosterFrame ==
    (call.fn = "deleteRoster" /\ ~call.ret.threw) =>
        LET b == call.before.state
            r == call.rosterId
        IN  /\ \A i \in DOMAIN state.rosters : state.rosters[i].id # r
            /\ \A i \in DOMAIN state.players : state.players[i].roster_id # r
            /\ state.players = SelectSeq(b.players, LAMBDA p : p.roster_id # r)
            /\ state.rosters = SelectSeq(b.rosters, LAMBDA x : x.id # r)
            /\ b.currentRosterId = r =>
                   /\ state.currentRosterId = "null"
                   /\ state.currentRoster = Null
            /\ b.currentRosterId # r =>
                   /\ state.currentRosterId = b.currentRosterId
                   /\ state.currentRoster = b.currentRoster

\* roster-001 was deleted with its two players while roster-002 was selected.
C18_Witness ==
    /\ call.fn = "deleteRoster"
    /\ ~call.ret.threw
    /\ call.rosterId = "roster-001"
    /\ Len(call.before.state.players) = 3
    /\ Len(state.players) = 1
    /\ state.currentRosterId = "roster-002"
    /\ state.currentRoster = createRoster("roster-002", "U14 Thunder")

\* -------------------------------------------------- shot generators: claims

\* C19: every shot the generators produce has gameTime of form MM:SS with
\* minutes in [0,90] and seconds in [0,60), clockSeconds in [0,5400], and
\* clockSeconds = 60 * minutes + seconds of its own gameTime.
C19_GeneratedTimes ==
    call.fn \in {"generateShots", "generateLargeDataset"} =>
        LET t == call.ret.gameTime
            IsDigit(c) == \E d \in 0..9 : Digits[d + 1] = c
            minutes == ParseInt(SubSeq(t, 1, 2))
            seconds == ParseInt(SubSeq(t, 4, 5))
        IN  /\ Len(t) = 5
            /\ t[3] = ":"
            /\ \A k \in {1, 2, 4, 5} : IsDigit(t[k])
            /\ minutes \in 0..90
            /\ seconds \in 0..59
            /\ call.ret.clockSeconds \in 0..5400
            /\ call.ret.clockSeconds = 60 * minutes + seconds

\* -------------------------------------------------------- analytics: claims

AnalyticsFns ==
    {"filterShots", "getFilterOptions", "calculateTeamStats",
     "calculateTotalStats", "getHeatMapShots", "calculateDensityGrid"}

\* A call without its result: the function and its arguments.
Asked(c) == [k \in DOMAIN c \ {"ret"} |-> c[k]]

\* Two calls of the same function with the same arguments on the log returned
\* equal results.
SameAnswer ==
    (/\ call.fn \in AnalyticsFns
     /\ call.fn = earlier.fn
     /\ Asked(call) = Asked(earlier)) => call.ret = earlier.ret

ShotsOfCell(gridSize, row, col) ==
    {i \in DOMAIN shots : /\ Floor(shots[i].position.y, gridSize) = row
                          /\ Floor(shots[i].position.x, gridSize) = col}

\* The sum of the first n values of an array indexed from 0.
RECURSIVE SumTo(_, _)
SumTo(values, n) ==
    IF n = 0 THEN 0 ELSE values[n - 1] + SumTo(values, n - 1)

\* The sum of all the cells of the grid, row by row.
GridSum(grid) ==
    LET rowSums == [row \in DOMAIN grid |->
                       SumTo(grid[row], Cardinality(DOMAIN grid[row]))]
    IN  SumTo(rowSums, Cardinality(DOMAIN grid))

\* Every cell holds the weights of the shots binned into it.
CellsHoldWeights(grid, gridSize) ==
    \A row \in DOMAIN grid : \A col \in DOMAIN grid[row] :
        grid[row][col] = WeightSum(ShotsOfCell(gridSize, row, col))

\* The cells add up to the weights of all the shots.
CellsAddUp(grid) ==
    GridSum(grid) = WeightSum(DOMAIN shots)

\* getMaxDensity gave the largest cell value, 0 for a grid of zeros.
MaxIsLargestCell ==
    call.fn = "getMaxDensity" =>
        /\ \E row \in DOMAIN call.grid : \E col \in DOMAIN call.grid[row] :
               call.grid[row][col] = call.ret
        /\ \A row \in DOMAIN call.grid : \A col \in DOMAIN call.grid[row] :
               call.grid[row][col] <= call.ret
        /\ (\A row \in DOMAIN call.grid : \A col \in DOMAIN call.grid[row] :
               call.grid[row][col] = 0) => call.ret = 0

\* C21: for every log with positions inside the pitch, every cell of the grid
\* holds the sum of getShotWeight over the shots with floor(y / g) = row and
\* floor(x / g) = col, so the cells add up to the weights of all the shots;
\* getMaxDensity returns the largest cell value, 0 for a grid of zeros.
C21_GridAccumulatesWeights ==
    /\ (/\ call.fn = "calculateDensityGrid"
        /\ \A i \in DOMAIN shots : OnPitch(shots[i].position)) =>
           /\ CellsHoldWeights(call.ret, call.gridSize)
           /\ CellsAddUp(call.ret)
    /\ MaxIsLargestCell

\* ---------------------------------------------------------------------------
\* store errors: claims

StoreFns ==
    {"loadRosters", "createNewRoster", "updateRoster", "deleteRoster",
     "addPlayer", "updatePlayer", "deletePlayer"}

Healthy(sto) == [sto EXCEPT !.error = "null"]

\* The call reached the store: its own validation of the arguments passed,
\* which is when the same call on a store without an error does not throw.
AskedStore ==
    LET st == call.before.state
        sto == Healthy(call.before.store)
    IN  CASE call.fn = "createNewRoster" ->
                 ~createNewRoster(st, sto, call.name).ret.threw
          [] call.fn = "addPlayer" ->
                 ~addPlayer(st, sto, call.rosterId, call.name, call.number).ret.threw
          [] call.fn = "updatePlayer" ->
                 ~updatePlayer(st, sto, call.playerId, call.updates).ret.threw
          [] OTHER -> TRUE

\* C22: when the store answers with an error, each of loadRosters,
\* createNewRoster, updateRoster, deleteRoster, addPlayer, updatePlayer and
\* deletePlayer throws that same error and leaves the local state and the
\* contents of the store as they were before the call.
C22_StoreErrorLeavesState ==
    (/\ call.fn \in StoreFns
     /\ call.before.store.error # "null"
     /\ AskedStore) =>
        /\ call.ret = Thrown([message |-> call.before.store.error])
        /\ state = call.before.state
        /\ store = call.before.store

C22_Witness ==
    /\ call.fn = "addPlayer"
    /\ call.before.store.error = "Database error"
    /\ AskedStore
    /\ call.ret.threw
    /\ state.players # <<>>

\* ---------------------------------------------------------------------------
\* players table: claims

\* The row addPlayer of the last call sends to the store once its validation
\* has passed.
AddedRow ==
    LET r == addPlayer(call.before.state, Healthy(call.before.store),
                       call.rosterId, call.name, call.number)
    IN  [roster_id |-> r.ret.value.roster_id, name |-> r.ret.value.name,
         number |-> r.ret.value.number]

\* C23: a player creation that the validation of addPlayer accepts is never
\* rejected by the constraints of the players table; two players of the same
\* user in two rosters may hold the same number.
C23_TableTakesValidated ==
    (call.fn = "addPlayer" /\ AskedStore) =>
        PlayersTableAccepts(call.before.store.players, AddedRow)

\* ---------------------------------------------------------------------------
\* shot tracker: claims, continued

\* C24: in every state reached by addShot and undoLastShot with shots of team
\* home or away, homeScore is the number of goals of team home in the log and
\* awayScore the number of goals of team away, the goals calculateTeamStats
\* reports on the same log; neither score is negative.
C24_ScoresCountGoals ==
    /\ game.homeScore = calculateTeamStats(shots, "home").goals
    /\ game.awayScore = calculateTeamStats(shots, "away").goals
    /\ game.homeScore >= 0
    /\ game.awayScore >= 0

C24_Witness ==
    /\ call.fn = "undoLastShot"
    /\ call.ret # Undefined
    /\ call.ret.type = "GOAL!"
    /\ game.homeScore = 1
    /\ game.awayScore = 1
    /\ Len(shots) = 2

\* No two players of the table share a roster and a number.
NumbersUniquePerRoster(players) ==
    \A i, j \in DOMAIN players :
        (/\ i # j
         /\ players[i].roster_id = players[j].roster_id
         /\ players[i].number # Null) => players[i].number # players[j].number

\* C25: from a store in which no two players of a roster share a number, after
\* any sequence of loadPlayers, addPlayer, updatePlayer and deletePlayer, the
\* store holds no two players with the same roster_id and the same non-null
\* number.
C25_StoreNumbersUnique == NumbersUniquePerRoster(store.players)

\* ---------------------------------------------------------------------------
\* local state and store: claims

IdsOf(rows) == {rows[i].id : i \in DOMAIN rows}

\* Every row of the local list is a row of the table, with the same fields.
HeldByStore(local, table) ==
    \A i \in DOMAIN local : \E j \in DOMAIN table : table[j] = local[i]

\* C26: from a state loaded with loadRosters and loadPlayersForRoster, after
\* any sequence of createNewRoster, updateRoster, deleteRoster,
\* addPlayerToRoster, updatePlayer and deletePlayer, succeeding or failing with
\* a store error, every roster and every player of the local state is in the
\* store with the same id, name, number and roster_id, and the local rosters
\* are the rosters the store holds.
C26_LocalStateMirrorsStore ==
    /\ HeldByStore(state.rosters, store.rosters)
    /\ HeldByStore(state.players, store.players)
    /\ state.currentRoster = Null
    /\ IdsOf(state.rosters) = IdsOf(store.rosters)

C26_Witness ==
    /\ call.fn = "updatePlayer"
    /\ ~call.ret.threw
    /\ call.ret.value # NoValue
    /\ call.ret.value.id = "new-1"
    /\ \E i \in DOMAIN state.rosters : state.rosters[i].name = "New Name"
    /\ store.error = "null"

\* ---------------------------------------------------------------------------
\* roster selection: claims

\* C27: in every state reached by selectRoster, clearRosterSelection,
\* updateRoster and deleteRoster, state.currentRoster is null exactly when
\* state.currentRosterId is null, and otherwise it is the element of
\* state.rosters with that id, with that roster's current name.
C27_CurrentRosterIsSelected ==
    /\ (state.currentRoster = Null) <=> (state.currentRosterId = "null")
    /\ state.currentRosterId # "null" =>
           \E i \in DOMAIN state.rosters :
               /\ state.rosters[i].id = state.currentRosterId
               /\ state.rosters[i] = state.currentRoster

\* C28: in every state reached by selectRoster, clearRosterSelection and
\* deleteRoster, localStorage's 'currentRosterId' holds state.currentRosterId
\* when a roster is selected and is absent when none is, so the selection
\* restored from it is never a deleted roster.
C28_PersistedSelectionAgrees == localStorage = state.currentRosterId

\* ---------------------------------------------------------------------------
\* heat map weighting: claims

\* The shots of the log that pass the team filter.
TeamFiltered(teamFilter) ==
    IF teamFilter = "all" THEN shots
    ELSE SelectSeq(shots, LAMBDA s : s.team = teamFilter)

\* C29: a shot is kept by getHeatMapShots if and only if it passes the team
\* filter and getShotWeight gives it a weight above 0, so the grid built from
\* getHeatMapShots(S) is the grid built from the team-filtered S.
C29_FilterAgreesWithWeight ==
    call.fn = "getHeatMapShots" =>
        /\ call.ret = SelectSeq(TeamFiltered(call.teamFilter),
                                LAMBDA s : getShotWeight(s) > 0)
        /\ \A gridSize \in GridSizes :
               calculateDensityGrid(call.ret, gridSize)
                   = calculateDensityGrid(TeamFiltered(call.teamFilter), gridSize)

\* The away shots were asked of a log with a home goal and an away shot off
\* target on the halfway line, which both are left out.
C29_Witness ==
    /\ call.fn = "getHeatMapShots"
    /\ call.teamFilter = "away"
    /\ Len(shots) = 2
    /\ shots[1].team = "home" /\ shots[1].type = "GOAL!"
    /\ shots[2].team = "away" /\ shots[2].type = "Shot Off Target"
    /\ shots[2].position.x = 105
    /\ call.ret = <<>>

\* ---------------------------------------------------------------------------
\* time validators: claims

\* 60 * minutes(t) + seconds(t) of a string MM:SS or M:SS.
ClockSecondsOf(str) ==
    60 * ParseInt(SplitAtColon(str, 0)) + ParseInt(SplitAtColon(str, 1))

\* Every string isValidGameTime accepts names an instant isValidClockSeconds
\* accepts.
AcceptedTimeIsValidClock ==
    (call.fn = "isValidGameTime" /\ call.ret) =>
        isValidClockSeconds(Num(ClockSecondsOf(call.gameTime.s)))

\* Every integer isValidClockSeconds accepts is formatted to a string
\* isValidGameTime accepts and that converts back to it.
ValidClockFormatsBack ==
    (call.fn = "formatTime" /\ isValidClockSeconds(Num(call.seconds))) =>
        /\ isValidGameTime(Str(call.ret))
        /\ ClockSecondsOf(call.ret) = call.seconds

\* C30: the two time validators agree on every instant: a string accepted by
\* isValidGameTime gives 60 * minutes + seconds accepted by
\* isValidClockSeconds, and an integer accepted by isValidClockSeconds is
\* formatted by formatTime to a string isValidGameTime accepts and that
\* converts back to it.
C30_TimeValidatorsAgree == AcceptedTimeIsValidClock /\ ValidClockFormatsBack

====
